---- MODULE Spec2Model ----
(***************************************************************************)
(* GPU skinning examples of rusty_spine.                                   *)
(*                                                                         *)
(* Two example programs are modelled: examples/gpu_skinning.rs (one file)  *)
(* and examples/gpu_skinning/ (main.rs, spine.rs, pipeline.rs,             *)
(* texture.rs).  Both bake a skeleton into a vertex buffer, an index       *)
(* buffer and per-attachment metadata at load time; the second also        *)
(* extracts per-frame uniform tables in Stage::draw.                       *)
(*                                                                         *)
(* Numbers: an f32 weight w is the integer 10000 * w, so 1.0 is 10000 and  *)
(* the tolerance 1e-4 is 1.  Buffer positions are 0-based as in the code;  *)
(* TLA+ sequences are 1-based, so position p of a Vec is element p + 1.    *)
(***************************************************************************)
EXTENDS Integers, Sequences, FiniteSets, TLC

\* ------------------------------------------------------------------ bounds
\* Slots of a skeleton offered to the baker.
MaxSlots == 2
\* Vertices of the large mesh: more than a u16 index can address.
LargeMeshVertices == 65536
\* Bones of a skeleton besides the root bone.
ExtraBones == 2
\* Values an out-of-bounds read of the uv array can return: 0..MaxGarbage.
MaxGarbage == 1
\* Animation poses of the bones: 0..MaxPose.
MaxPose == 1
\* The grid grows to MaxGrid x MaxGrid cells (the program stops at 100).
MaxGrid == 2

\* The pages of replaced atlases that wait to be disposed at one time.
MaxDisposing == 2

\* ------------------------------------------------------- program constants
MAX_MESH_VERTICES == 10000
MAX_MESH_INDICES == 20000
\* The lengths of the uniform tables of gpu_skinning/main.rs.
BONES == 100
ATTACHMENT_SLOTS == 100
SLOT_BONES == 100
DEFORM_OFFSETS == 100
DEFORM_SIZE == 5000

\* `x as u16`, and u16 arithmetic of a build without overflow checks.
u16(x) == x % 65536
\* `x as u8`.
u8(x) == x % 256

None == "None"

\* f32 1.0 in the model's fixed point.
ONE == 10000

\* Vec2::ZERO
ZERO == <<0, 0>>

Min(x, y) == IF x < y THEN x ELSE y

\* ----------------------------------------------------------- skeleton data
\* The attachments of the skin, by name.  A region has 4 corners (offset,
\* 8 floats); an unweighted mesh has vertices = 2 floats per vertex; a
\* weighted mesh has bones = per vertex a count followed by that many bone
\* indices, and vertices = 3 floats (x, y, weight) per influence.
RegionAttachment ==
    [type |-> "Region",
     offset |-> <<-2, -1, -2, 1, 2, 1, 2, -1>>,
     uvs |-> <<0, 1, 0, 0, 1, 0, 1, 1>>]

\* 3 vertices, one triangle.
MeshAttachment ==
    [type |-> "Mesh",
     uvs |-> <<0, 0, 1, 0, 0, 1>>,
     bones |-> <<>>,
     vertices |-> <<11, 12, 21, 22, 31, 32>>,
     triangles |-> <<0, 1, 2>>]

\* 3 vertices with 5, 2 and 1 influences (8 influences in all).
WeightedMeshAttachment ==
    [type |-> "Mesh",
     uvs |-> <<0, 0, 1, 0, 0, 1>>,
     bones |-> <<5, 0, 1, 0, 1, 0, 2, 1, 0, 1, 1>>,
     vertices |-> <<11, 12, 2000, 21, 22, 2000, 31, 32, 2000, 41, 42, 2000,
                    51, 52, 2000, 61, 62, 6000, 71, 72, 4000, 81, 82, 10000>>,
     triangles |-> <<0, 1, 2>>]

\* 1 vertex with 2 influences, the first on bone 2.
WeightedMeshAttachment2 ==
    [type |-> "Mesh",
     uvs |-> <<0, 0>>,
     bones |-> <<2, 2, 0>>,
     vertices |-> <<11, 12, 5000, 21, 22, 5000>>,
     triangles |-> <<0, 0, 0>>]

ClippingAttachment == [type |-> "Clipping"]

\* An unweighted mesh of LargeMeshVertices vertices, one triangle.
LargeMeshAttachment ==
    [type |-> "Mesh",
     uvs |-> <<>> \o [k \in 1..(2 * LargeMeshVertices) |-> k % 2],
     bones |-> <<>>,
     vertices |-> <<>> \o [k \in 1..(2 * LargeMeshVertices) |-> k % 7],
     triangles |-> <<0, 1, 2>>]

AttachmentNames == {"region", "mesh", "weighted", "weighted2", "clip"}

attachment_data(name) ==
    CASE name = "region" -> RegionAttachment
      [] name = "mesh" -> MeshAttachment
      [] name = "weighted" -> WeightedMeshAttachment
      [] name = "weighted2" -> WeightedMeshAttachment2
      [] name = "clip" -> ClippingAttachment
      [] name = "large" -> LargeMeshAttachment

\* Attachment::as_region / as_mesh / MeshAttachment::has_bones
as_region(name) == attachment_data(name).type = "Region"
as_mesh(name) == attachment_data(name).type = "Mesh"
has_bones(mesh) == Len(mesh.bones) > 0

\* A bone of the live skeleton: world transform a b c d world_x world_y.
BonePose(i, t) ==
    [a |-> 10 * i + t + 1, b |-> 10 * i + t + 2, c |-> 10 * i + t + 3,
     d |-> 10 * i + t + 4, world_x |-> 10 * i + t + 5, world_y |-> 10 * i + t + 6]

Bone(i, active, t) == [active |-> active, pose |-> BonePose(i, t)]

\* BlendMode
BlendModes == <<"Normal", "Additive", "Multiply", "Screen">>

\* A slot: its index (slot.data().index(), set by SetupSkeleton), its bone
\* (by bone index), the attachment bound to it (a name or None), the deform
\* floats of the slot, the blend mode of its data.
Slot(bone, attachment) ==
    [bone |-> bone, attachment |-> attachment, index |-> 0, deform |-> <<>>,
     blend_mode |-> "Normal"]

\* AtlasFilter, AtlasWrap, AtlasFormat: the values the create-texture
\* callback names, and one more of each for the values it does not name.
AtlasFilters == {"Linear", "Nearest", "MipMap"}

AtlasWraps == {"ClampToEdge", "MirroredRepeat", "Repeat", "Unknown"}

AtlasFormats == {"RGB888", "RGBA8888", "Alpha"}

\* The image files of the pages: one that loads, one that is not there and
\* one that does not decode.
Images == {"page.png", "missing.png", "corrupt.png"}

\* A page of an atlas: its image file, its filters, wraps and format, and
\* whether it is premultiplied.
AtlasPage(name, min_filter, mag_filter, u_wrap, v_wrap, format, pma) ==
    [name |-> name, min_filter |-> min_filter, mag_filter |-> mag_filter,
     u_wrap |-> u_wrap, v_wrap |-> v_wrap, format |-> format, pma |-> pma]

\* An atlas: its pages.  Atlas(n, pma) has n pages of a loadable RGBA8888
\* image with linear filters and clamped wraps.
AtlasOf(pages) == [pages |-> pages]

Atlas(page_count, pma) ==
    AtlasOf(<<>> \o [k \in 1..page_count |->
                        AtlasPage("page.png", "Linear", "Linear", "ClampToEdge",
                                  "ClampToEdge", "RGBA8888", pma)])

\* The page of the region of an attachment: the regions are on the first
\* page of the atlas, the meshes on the last.
page_of(atlas, attachment) ==
    IF attachment = "region" THEN 0 ELSE Len(atlas.pages) - 1

\* Skeleton::slots_count, Skeleton::draw_order_at_index
slots_count(skeleton) == Len(skeleton.slots)

\* draw_order_at_index answering with the slot of that slot index: the draw
\* order taken for the slot order.
draw_order_at_index_by_slot(skeleton, index) ==
    IF index < Len(skeleton.slots)
    THEN <<skeleton.slots[index + 1]>>
    ELSE <<>>

\* An Option is a sequence: <<>> is None, <<x>> is Some(x).
draw_order_at_index(skeleton, index) ==
    IF index < Len(skeleton.draw_order)
    THEN <<skeleton.slots[skeleton.draw_order[index + 1] + 1]>>
    ELSE <<>>

\* ------------------------------------------------- bake: gpu_skinning/spine.rs
\* The accumulator of build_skeleton_buffers: the three Vecs it returns, the
\* lines it prints, and whether it panicked (an index out of bounds, or an
\* arithmetic overflow in a build with overflow checks).
EmptyBake ==
    [vertices |-> <<>>, indices |-> <<>>, attachment_info |-> <<>>,
     stdout |-> <<>>, panicked |-> FALSE]

Panic(acc) == [acc EXCEPT !.panicked = TRUE]

\* The 6 indices of a quad, spine.rs 152-159.
quad_indices(base_index) ==
    <<base_index, base_index + 1, base_index + 2,
      base_index + 2, base_index + 3, base_index>>

\* spine.rs 117-160: the region branch.
bake_region(acc, region, bone_index, overflow_checks) ==
    LET region_vertices ==
            [k \in 1..4 |->
                LET vertex_index == k - 1 IN
                [positions |-> <<<<region.offset[vertex_index * 2 + 1],
                                   region.offset[vertex_index * 2 + 2]>>,
                                 ZERO, ZERO, ZERO>>,
                 bone_weights |-> <<ONE, 0, 0, 0>>,
                 bone_indices |-> <<bone_index, bone_index, bone_index, bone_index>>,
                 uv |-> <<region.uvs[vertex_index * 2 + 1],
                          region.uvs[vertex_index * 2 + 2]>>]]
        base_index == u16(Len(acc.vertices))
    IN  IF base_index + 3 > 65535 /\ overflow_checks
        THEN Panic(acc)
        ELSE [acc EXCEPT !.vertices = @ \o region_vertices,
                         !.indices = @ \o [k \in 1..6 |-> u16(quad_indices(base_index)[k])]]

\* spine.rs 175-214: the vertices of a weighted mesh.  bone_index is the
\* cursor into mesh.bones.  Returns [panicked, vertices].
RECURSIVE weighted_vertices(_, _, _, _)
weighted_vertices(mesh, vertex_index, bone_index, garbage) ==
    LET vertex_count == Len(mesh.vertices) \div 3
        vertices_data == mesh.vertices
        bones == mesh.bones
    IN  IF vertex_index >= vertex_count
        THEN [vertices |-> <<>>, panicked |-> FALSE]
        ELSE IF bone_index >= Len(bones)
        THEN [vertices |-> <<>>, panicked |-> TRUE]
        ELSE
            LET bone_count == bones[bone_index + 1]
                cursor == bone_index + 1
                n == Min(bone_count, 4)
                vx == vertices_data[vertex_index * 3 + 1]
                vy == vertices_data[vertex_index * 3 + 2]
                weight == vertices_data[vertex_index * 3 + 3]
                uv == IF vertex_index * 2 + 1 < Len(mesh.uvs)
                      THEN <<mesh.uvs[vertex_index * 2 + 1], mesh.uvs[vertex_index * 2 + 2]>>
                      ELSE <<garbage, garbage>>
            IN  IF \E j \in 0..(n - 1) : cursor + j >= Len(bones)
                THEN [vertices |-> <<>>, panicked |-> TRUE]
                ELSE
                    LET vertex ==
                            [positions |-> [k \in 1..4 |-> IF k - 1 < n THEN <<vx, vy>> ELSE ZERO],
                             bone_weights |-> [k \in 1..4 |-> IF k - 1 < n THEN weight ELSE 0],
                             bone_indices |-> [k \in 1..4 |-> IF k - 1 < n
                                                              THEN bones[cursor + (k - 1) + 1]
                                                              ELSE 0],
                             uv |-> uv]
                        rest == weighted_vertices(mesh, vertex_index + 1, cursor, garbage)
                    IN  [vertices |-> IF rest.panicked THEN <<>> ELSE <<vertex>> \o rest.vertices,
                         panicked |-> rest.panicked]

\* spine.rs 216-255: the vertices of an unweighted mesh.
unweighted_vertices(mesh, bone_index) ==
    LET vertex_size == 2
        vertex_count == Len(mesh.vertices) \div vertex_size
        vertices_data == mesh.vertices
    IN  [k \in 1..vertex_count |->
            LET vertex_index == k - 1 IN
            [positions |-> <<<<vertices_data[vertex_index * vertex_size + 1],
                               vertices_data[vertex_index * vertex_size + 2]>>,
                             ZERO, ZERO, ZERO>>,
             bone_weights |-> <<ONE, 0, 0, 0>>,
             bone_indices |-> <<bone_index, bone_index, bone_index, bone_index>>,
             uv |-> <<mesh.uvs[vertex_index * 2 + 1], mesh.uvs[vertex_index * 2 + 2]>>]]

\* spine.rs 258-266: the indices of a mesh, pushed after its vertices.
mesh_indices(vertices, mesh) ==
    LET index_count == Len(mesh.triangles)
        vertex_offset == u16(Len(vertices))
    IN  [k \in 1..index_count |-> vertex_offset + u16(mesh.triangles[k])]

\* spine.rs 162-267: the mesh branch.
bake_mesh(acc, mesh, bone_index, garbage, overflow_checks) ==
    LET skinned == weighted_vertices(mesh, 0, 0, garbage)
        vertices == IF has_bones(mesh)
                    THEN acc.vertices \o skinned.vertices
                    ELSE acc.vertices \o unweighted_vertices(mesh, bone_index)
        pushed == mesh_indices(vertices, mesh)
    IN  IF has_bones(mesh) /\ skinned.panicked
        THEN Panic(acc)
        ELSE IF overflow_checks /\ \E k \in 1..Len(pushed) : pushed[k] > 65535
        THEN Panic(acc)
        ELSE [acc EXCEPT !.vertices = vertices,
                         !.indices = @ \o [k \in 1..Len(pushed) |-> u16(pushed[k])]]

\* push_metadata with the index range started at the vertex count: the two
\* running offsets taken for one another.
push_metadata_vertex_offset(acc, slot_index, vertex_start, index_start) ==
    LET metadata ==
            [vertex_count |-> Len(acc.vertices) - vertex_start,
             index_count |-> Len(acc.indices) - index_start,
             slot_index |-> u16(slot_index),
             vertex_start |-> vertex_start,
             index_start |-> vertex_start]
    IN  [acc EXCEPT !.stdout = Append(@, [metadata |-> metadata, line |-> "metadata"]),
                    !.attachment_info = Append(@, metadata)]

\* spine.rs 270-280: the metadata of one slot, printed and pushed.
push_metadata(acc, slot_index, vertex_start, index_start) ==
    LET metadata ==
            [vertex_count |-> Len(acc.vertices) - vertex_start,
             index_count |-> Len(acc.indices) - index_start,
             slot_index |-> u16(slot_index),
             vertex_start |-> vertex_start,
             index_start |-> index_start]
    IN  [acc EXCEPT !.stdout = Append(@, [metadata |-> metadata, line |-> "metadata"]),
                    !.attachment_info = Append(@, metadata)]

\* spine.rs 98-281: one iteration of the slot loop.
bake_slot(acc, skeleton, slot_index, garbage, overflow_checks) ==
    LET found == draw_order_at_index(skeleton, slot_index)
        slot == found[1]
    IN
    IF found = <<>> THEN acc
    ELSE IF ~skeleton.bones[slot.bone + 1].active THEN acc
    ELSE IF slot.attachment = None THEN acc
    ELSE
        LET attachment == slot.attachment
            bone_index == slot_index
            vertex_start == Len(acc.vertices)
            index_start == Len(acc.indices)
            after_region == IF as_region(attachment)
                            THEN bake_region(acc, attachment_data(attachment),
                                             bone_index, overflow_checks)
                            ELSE acc
            after_mesh == IF as_mesh(attachment) /\ ~after_region.panicked
                          THEN bake_mesh(after_region, attachment_data(attachment),
                                         bone_index, garbage, overflow_checks)
                          ELSE after_region
        IN  IF after_mesh.panicked
            THEN after_mesh
            ELSE push_metadata(after_mesh, slot_index, vertex_start, index_start)

\* spine.rs 93-284
RECURSIVE bake_from(_, _, _, _, _)
bake_from(acc, skeleton, slot_index, garbage, overflow_checks) ==
    IF slot_index >= slots_count(skeleton) \/ acc.panicked
    THEN acc
    ELSE bake_from(bake_slot(acc, skeleton, slot_index, garbage, overflow_checks),
                   skeleton, slot_index + 1, garbage, overflow_checks)

build_skeleton_buffers(skeleton, garbage, overflow_checks) ==
    bake_from(EmptyBake, skeleton, 0, garbage, overflow_checks)

\* --------------------------------------------------- bake: gpu_skinning.rs
\* gpu_skinning.rs 258-295: the region branch.  A vertex has one position
\* and bone_indices [slot_index as u8, 0, 0, 0].
single_bake_region(acc, region, slot_index, overflow_checks) ==
    LET region_vertices ==
            [k \in 1..4 |->
                LET vertex_index == k - 1 IN
                [bone_weights |-> <<ONE, 0, 0, 0>>,
                 bone_indices |-> <<u8(slot_index), 0, 0, 0>>,
                 uv |-> <<region.uvs[vertex_index * 2 + 1],
                          region.uvs[vertex_index * 2 + 2]>>,
                 position |-> <<region.offset[vertex_index * 2 + 1],
                                region.offset[vertex_index * 2 + 2]>>]]
        base_index == u16(Len(acc.vertices))
    IN  IF base_index + 3 > 65535 /\ overflow_checks
        THEN Panic(acc)
        ELSE [acc EXCEPT !.vertices = @ \o region_vertices,
                         !.indices = @ \o [k \in 1..6 |-> u16(quad_indices(base_index)[k])]]

\* gpu_skinning.rs 241-433: one iteration of the slot loop.  The mesh branch
\* starts with `continue` (line 298): nothing of a mesh is baked and no
\* metadata is pushed for its slot.
single_bake_slot(acc, skeleton, slot_index, overflow_checks) ==
    LET found == draw_order_at_index(skeleton, slot_index)
        slot == found[1]
    IN
    IF found = <<>> THEN acc
    ELSE IF ~skeleton.bones[slot.bone + 1].active THEN acc
    ELSE IF slot.attachment = None THEN acc
    ELSE
        LET attachment == slot.attachment
            vertex_start == Len(acc.vertices)
            index_start == Len(acc.indices)
        IN  CASE as_region(attachment) ->
                    LET after == single_bake_region(acc, attachment_data(attachment),
                                                    slot_index, overflow_checks)
                    IN  IF after.panicked
                        THEN after
                        ELSE push_metadata(after, slot_index, vertex_start, index_start)
              [] as_mesh(attachment) -> acc
              [] OTHER -> push_metadata(acc, slot_index, vertex_start, index_start)

\* gpu_skinning.rs 236-436
RECURSIVE single_bake_from(_, _, _, _)
single_bake_from(acc, skeleton, slot_index, overflow_checks) ==
    IF slot_index >= slots_count(skeleton) \/ acc.panicked
    THEN acc
    ELSE single_bake_from(single_bake_slot(acc, skeleton, slot_index, overflow_checks),
                          skeleton, slot_index + 1, overflow_checks)

single_build_skeleton_buffers(skeleton, overflow_checks) ==
    single_bake_from(EmptyBake, skeleton, 0, overflow_checks)

\* ------------------------------------------ blend states: gpu_skinning.rs
\* BlendState::new(equation, sfactor, dfactor)
BlendState(equation, sfactor, dfactor) ==
    [equation |-> equation, sfactor |-> sfactor, dfactor |-> dfactor]

\* get_blend_states with the colour factors of the straight additive case
\* used for the premultiplied one as well.
get_blend_states_straight(blend_mode, premultiplied_alpha) ==
    CASE blend_mode = "Additive" ->
            [alpha_blend |-> BlendState("Add", "One", "One"),
             color_blend |-> BlendState("Add", "SourceAlpha", "One")]
      [] blend_mode = "Multiply" ->
            [alpha_blend |-> BlendState("Add", "OneMinusSourceAlpha", "OneMinusSourceAlpha"),
             color_blend |-> BlendState("Add", "DestinationColor", "OneMinusSourceAlpha")]
      [] blend_mode = "Normal" ->
            [alpha_blend |-> BlendState("Add", "One", "OneMinusSourceAlpha"),
             color_blend |-> BlendState("Add", "SourceAlpha", "OneMinusSourceAlpha")]
      [] blend_mode = "Screen" ->
            [alpha_blend |-> BlendState("Add", "OneMinusSourceColor", "OneMinusSourceAlpha"),
             color_blend |-> BlendState("Add", "One", "OneMinusSourceAlpha")]

\* gpu_skinning.rs 475-580: GetBlendStates for BlendMode.
get_blend_states(blend_mode, premultiplied_alpha) ==
    CASE blend_mode = "Additive" /\ ~premultiplied_alpha ->
            [alpha_blend |-> BlendState("Add", "One", "One"),
             color_blend |-> BlendState("Add", "SourceAlpha", "One")]
      [] blend_mode = "Additive" /\ premultiplied_alpha ->
            [alpha_blend |-> BlendState("Add", "One", "One"),
             color_blend |-> BlendState("Add", "One", "One")]
      [] blend_mode = "Multiply" /\ ~premultiplied_alpha ->
            [alpha_blend |-> BlendState("Add", "OneMinusSourceAlpha", "OneMinusSourceAlpha"),
             color_blend |-> BlendState("Add", "DestinationColor", "OneMinusSourceAlpha")]
      [] blend_mode = "Multiply" /\ premultiplied_alpha ->
            [alpha_blend |-> BlendState("Add", "OneMinusSourceAlpha", "OneMinusSourceAlpha"),
             color_blend |-> BlendState("Add", "DestinationColor", "OneMinusSourceAlpha")]
      [] blend_mode = "Normal" /\ ~premultiplied_alpha ->
            [alpha_blend |-> BlendState("Add", "One", "OneMinusSourceAlpha"),
             color_blend |-> BlendState("Add", "SourceAlpha", "OneMinusSourceAlpha")]
      [] blend_mode = "Normal" /\ premultiplied_alpha ->
            [alpha_blend |-> BlendState("Add", "One", "OneMinusSourceAlpha"),
             color_blend |-> BlendState("Add", "One", "OneMinusSourceAlpha")]
      [] blend_mode = "Screen" /\ ~premultiplied_alpha ->
            [alpha_blend |-> BlendState("Add", "OneMinusSourceColor", "OneMinusSourceAlpha"),
             color_blend |-> BlendState("Add", "One", "OneMinusSourceAlpha")]
      [] blend_mode = "Screen" /\ premultiplied_alpha ->
            [alpha_blend |-> BlendState("Add", "OneMinusSourceColor", "OneMinusSourceAlpha"),
             color_blend |-> BlendState("Add", "One", "OneMinusSourceAlpha")]

\* The blend of a pipeline made by Pipeline::new without parameters: none,
\* written as blend states without equation and factors.
NoBlend ==
    [alpha_blend |-> BlendState(None, None, None),
     color_blend |-> BlendState(None, None, None)]

\* spine.rs 26: the skeleton is premultiplied if any page of its atlas is.
premultiplied_alpha(skeleton) ==
    \E k \in 1..Len(skeleton.atlas.pages) : skeleton.atlas.pages[k].pma

\* ------------------------------------------ per-frame tables: main.rs draw
\* Mat4::IDENTITY, by columns.
IDENTITY == <<<<1, 0, 0, 0>>, <<0, 1, 0, 0>>, <<0, 0, 1, 0>>, <<0, 0, 0, 1>>>>

\* bone_transform with the 2x2 part written row by row into the columns.
bone_transform_transposed(bone) ==
    <<<<bone.pose.a, bone.pose.b, 0, 0>>,
      <<bone.pose.c, bone.pose.d, 0, 0>>,
      <<0, 0, 1, 0>>,
      <<bone.pose.world_x, bone.pose.world_y, 0, 1>>>>

\* main.rs 318-323: Mat4::from_cols_array_2d of a bone's world transform.
bone_transform(bone) ==
    <<<<bone.pose.a, bone.pose.c, 0, 0>>,
      <<bone.pose.b, bone.pose.d, 0, 0>>,
      <<0, 0, 1, 0>>,
      <<bone.pose.world_x, bone.pose.world_y, 0, 1>>>>

\* spine.rs 286-299: Spine::get_bone_transforms, Mat4::from_cols per bone.
get_bone_transforms(skeleton) ==
    [k \in 1..Len(skeleton.bones) |->
        LET bone == skeleton.bones[k] IN
        <<<<bone.pose.a, bone.pose.c, 0, 0>>,
          <<bone.pose.b, bone.pose.d, 0, 0>>,
          <<0, 0, 1, 0>>,
          <<bone.pose.world_x, bone.pose.world_y, 0, 1>>>>]

\* main.rs 314-326: the bone pass.  Entry k + 1 of the table is bones[k].
RECURSIVE bone_pass_from(_, _, _)
bone_pass_from(table, skeleton, position) ==
    IF position >= Len(skeleton.bones) \/ table.panicked
    THEN table
    ELSE
        LET bone == skeleton.bones[position + 1]
            bone_index == position
        IN  bone_pass_from(
                IF bone_index >= BONES
                THEN [table EXCEPT !.panicked = TRUE]
                ELSE [table EXCEPT !.bones[bone_index + 1] = bone_transform(bone)],
                skeleton, position + 1)

bone_pass(skeleton) ==
    bone_pass_from([bones |-> [k \in 1..BONES |-> IDENTITY], panicked |-> FALSE],
                   skeleton, 0)

\* The slot pass with the bone index, not the slot index, written into
\* attachment_slots.
RECURSIVE slot_pass_from_bone(_, _, _, _)
slot_pass_from_bone(table, skeleton, attachments, slot_index) ==
    IF slot_index >= Len(skeleton.slots) \/ table.panicked
    THEN table
    ELSE
        LET slot == skeleton.slots[slot_index + 1]
            bone_index == slot.bone
            attachment_name == slot.attachment
            with_bone == IF slot_index >= SLOT_BONES
                         THEN [table EXCEPT !.panicked = TRUE]
                         ELSE [table EXCEPT !.slot_bones[slot_index + 1] = bone_index]
            next ==
                IF with_bone.panicked \/ attachment_name = None
                   \/ attachment_name \notin DOMAIN attachments
                THEN with_bone
                ELSE
                    LET attachment_index == attachments[attachment_name].attachment_index IN
                    IF attachment_index >= ATTACHMENT_SLOTS
                    THEN [with_bone EXCEPT !.panicked = TRUE]
                    ELSE [with_bone EXCEPT !.attachment_slots[attachment_index + 1] = bone_index]
        IN  slot_pass_from_bone(next, skeleton, attachments, slot_index + 1)

\* main.rs 330-348: the slot pass, over skeleton.slots() in slot index order.
RECURSIVE slot_pass_from(_, _, _, _)
slot_pass_from(table, skeleton, attachments, slot_index) ==
    IF slot_index >= Len(skeleton.slots) \/ table.panicked
    THEN table
    ELSE
        LET slot == skeleton.slots[slot_index + 1]
            bone_index == slot.bone
            attachment_name == slot.attachment
            with_bone == IF slot_index >= SLOT_BONES
                         THEN [table EXCEPT !.panicked = TRUE]
                         ELSE [table EXCEPT !.slot_bones[slot_index + 1] = bone_index]
            next ==
                IF with_bone.panicked \/ attachment_name = None
                   \/ attachment_name \notin DOMAIN attachments
                THEN with_bone
                ELSE
                    LET attachment_index == attachments[attachment_name].attachment_index IN
                    IF attachment_index >= ATTACHMENT_SLOTS
                    THEN [with_bone EXCEPT !.panicked = TRUE]
                    ELSE [with_bone EXCEPT !.attachment_slots[attachment_index + 1] = slot_index]
        IN  slot_pass_from(next, skeleton, attachments, slot_index + 1)

slot_pass(skeleton, attachments) ==
    slot_pass_from([panicked |-> FALSE,
                    slot_bones |-> [k \in 1..SLOT_BONES |-> 0],
                    attachment_slots |-> [k \in 1..ATTACHMENT_SLOTS |-> 0]],
                   skeleton, attachments, 0)

\* main.rs 351-370: the deform pass, over skeleton.slots().  The deform
\* array of DEFORM_SIZE * 2 floats is written from cell 0 upwards: the table
\* holds its cells [0, deform_cursor), the cells after them are 0.0.
\* The deform pass that never advances its cursor: every deformed slot is
\* copied to the start of the array.
RECURSIVE deform_pass_from_start(_, _, _)
deform_pass_from_start(table, skeleton, slot_index) ==
    IF slot_index >= Len(skeleton.slots) \/ table.panicked
    THEN table
    ELSE
        LET slot == skeleton.slots[slot_index + 1]
            next ==
                IF slot_index >= DEFORM_OFFSETS
                THEN [table EXCEPT !.panicked = TRUE]
                ELSE IF Len(slot.deform) = 0
                THEN [table EXCEPT !.deform_offsets[slot_index + 1] = -1]
                ELSE [table EXCEPT
                        !.deform_offsets[slot_index + 1] = 0,
                        !.deform = slot.deform]
        IN  deform_pass_from_start(next, skeleton, slot_index + 1)

RECURSIVE deform_pass_from(_, _, _)
deform_pass_from(table, skeleton, slot_index) ==
    IF slot_index >= Len(skeleton.slots) \/ table.panicked
    THEN table
    ELSE
        LET slot == skeleton.slots[slot_index + 1]
            count == Len(slot.deform)
            deform_cursor == table.deform_cursor
            next ==
                IF slot_index >= DEFORM_OFFSETS
                THEN [table EXCEPT !.panicked = TRUE]
                ELSE IF count = 0
                THEN [table EXCEPT !.deform_offsets[slot_index + 1] = -1]
                ELSE IF deform_cursor + count > DEFORM_SIZE * 2
                THEN [table EXCEPT !.panicked = TRUE]
                ELSE [table EXCEPT
                        !.deform_offsets[slot_index + 1] = deform_cursor,
                        !.deform = SubSeq(@, 1, deform_cursor) \o slot.deform,
                        !.deform_cursor = deform_cursor + count]
        IN  deform_pass_from(next, skeleton, slot_index + 1)

deform_pass(skeleton) ==
    deform_pass_from([deform |-> <<>>,
                      panicked |-> FALSE,
                      deform_offsets |-> [k \in 1..DEFORM_OFFSETS |-> -1],
                      deform_cursor |-> 0],
                     skeleton, 0)

\* Cell `cell` of the deform array.
deform_at(deform, cell) == IF cell < Len(deform) THEN deform[cell + 1] ELSE 0

\* --------------------------------------------- textures and the draw loops
\* The two example programs.
Main == "gpu_skinning/main.rs"
Single == "gpu_skinning.rs"
Examples == {Main, Single}

\* SpineTexture (texture.rs 50-61): the renderer object of an atlas page.
NeedsToBeLoaded(path, min_filter, mag_filter, x_wrap, y_wrap, format) ==
    [min_filter |-> min_filter, mag_filter |-> mag_filter,
     format |-> format, path |-> path,
     x_wrap |-> x_wrap, y_wrap |-> y_wrap, state |-> "NeedsToBeLoaded"]

Loaded(texture) == [state |-> "Loaded", texture |-> texture]

\* A println of the create-texture callback.
Unsupported(what, value) == [line |-> what, value |-> value]

\* convert_filter without its last arm: a filter it does not name is kept,
\* and nothing is printed.
convert_filter_unmatched(filter) == [stdout |-> <<>>, converted |-> filter]

\* texture.rs 7-16, gpu_skinning.rs 1045-1054.  A conversion answers with
\* the converted value and the lines it printed.
convert_filter(filter) ==
    CASE filter = "Linear" -> [stdout |-> <<>>, converted |-> "Linear"]
      [] filter = "Nearest" -> [stdout |-> <<>>, converted |-> "Nearest"]
      [] OTHER -> [stdout |-> <<Unsupported("Unsupported texture filter mode", filter)>>,
                   converted |-> "Linear"]

\* texture.rs 17-27, gpu_skinning.rs 1055-1065
convert_wrap(wrap) ==
    CASE wrap = "ClampToEdge" -> [stdout |-> <<>>, converted |-> "Clamp"]
      [] wrap = "MirroredRepeat" -> [stdout |-> <<>>, converted |-> "Mirror"]
      [] wrap = "Repeat" -> [stdout |-> <<>>, converted |-> "Repeat"]
      [] OTHER -> [stdout |-> <<Unsupported("Unsupported texture wrap mode", wrap)>>,
                   converted |-> "Clamp"]

\* convert_format without its last arm: a format it does not name is stored
\* as the format of the atlas.
convert_format_unmatched(format) ==
    CASE format = "RGB888" -> [stdout |-> <<>>, converted |-> "RGB8"]
      [] format = "RGBA8888" -> [stdout |-> <<>>, converted |-> "RGBA8"]
      [] OTHER -> [stdout |-> <<>>, converted |-> format]

\* texture.rs 28-37, gpu_skinning.rs 1066-1075
convert_format(format) ==
    CASE format = "RGB888" -> [stdout |-> <<>>, converted |-> "RGB8"]
      [] format = "RGBA8888" -> [stdout |-> <<>>, converted |-> "RGBA8"]
      [] OTHER -> [stdout |-> <<Unsupported("Unsupported texture format", format)>>,
                   converted |-> "RGBA8"]

\* texture.rs 6-48, gpu_skinning.rs 1044-1086: the create-texture callback
\* of one page; the fields of NeedsToBeLoaded are evaluated in their order.
example_create_texture_cb(atlas_page, path) ==
    LET min_filter == convert_filter(atlas_page.min_filter)
        mag_filter == convert_filter(atlas_page.mag_filter)
        x_wrap == convert_wrap(atlas_page.u_wrap)
        y_wrap == convert_wrap(atlas_page.v_wrap)
        format == convert_format(atlas_page.format)
    IN  [stdout |-> min_filter.stdout \o mag_filter.stdout \o x_wrap.stdout
                        \o y_wrap.stdout \o format.stdout,
         renderer_object |->
            NeedsToBeLoaded(path, min_filter.converted, mag_filter.converted,
                            x_wrap.converted, y_wrap.converted, format.converted)]

\* Atlas::new_from_file runs the callback for every page of the new atlas,
\* from page on: the renderer objects of the pages and the lines printed.
RECURSIVE create_textures_from(_, _)
create_textures_from(atlas, page) ==
    IF page >= Len(atlas.pages)
    THEN [stdout |-> <<>>, textures |-> <<>>]
    ELSE LET created == example_create_texture_cb(atlas.pages[page + 1],
                                                  atlas.pages[page + 1].name)
             rest == create_textures_from(atlas, page + 1)
         IN  [stdout |-> created.stdout \o rest.stdout,
              textures |-> <<created.renderer_object>> \o rest.textures]

create_textures(atlas) == create_textures_from(atlas, 0)

\* ImageReader::open(path) and decode() of main.rs 167-170.
image_opens(path) == path # "missing.png"

image_decodes(path) == path # "corrupt.png"

\* The dispose callback that drops the texture without queueing it.
dispose_texture_cb_dropped(queue, spine_texture) == queue

\* main.rs 26-36, gpu_skinning.rs 1091-1098: the dispose-texture callback
\* of one page.
dispose_texture_cb(queue, spine_texture) ==
    IF spine_texture.state = "Loaded"
    THEN Append(queue, spine_texture.texture)
    ELSE queue

\* Dropping an atlas disposes its pages in page order.
RECURSIVE dispose_atlas(_, _, _)
dispose_atlas(queue, atlas_textures, page) ==
    IF page >= Len(atlas_textures)
    THEN queue
    ELSE dispose_atlas(dispose_texture_cb(queue, atlas_textures[page + 1]),
                       atlas_textures, page + 1)

\* A texture made under the first handle whether or not it is in use.
new_texture_first(live) == 1

\* Texture::from_data_and_format: a new GL texture, named by the lowest id
\* no live texture has.
new_texture(live) ==
    CHOOSE id \in 1..(Cardinality(live) + 1) :
        /\ id \notin live
        /\ \A j \in 1..(id - 1) : j \in live

\* The renderer object of the first page, whatever the attachment.
renderer_object_first(skeleton, attachment) == <<0>>

\* main.rs 132-153, 250-260: the renderer object (atlas page) of a region
\* or mesh attachment; none for any other attachment.
renderer_object(skeleton, attachment) ==
    IF as_region(attachment) \/ as_mesh(attachment)
    THEN <<page_of(skeleton.atlas, attachment)>>
    ELSE <<>>

\* ensure_textures_loaded doing nothing: the loading left out of the frame.
RECURSIVE ensure_textures_skipped(_, _, _, _)
ensure_textures_skipped(ex, skeleton, gl, slot_index) == gl

\* main.rs 122-191, gpu_skinning.rs 664-740: ensure_textures_loaded, from
\* draw-order position slot_index on.  gl is [textures, live, gl_calls,
\* panic], panic the message of the panic that stopped the loop, or None.
RECURSIVE ensure_textures_loaded(_, _, _, _)
ensure_textures_loaded(ex, skeleton, gl, slot_index) ==
    IF slot_index >= slots_count(skeleton)
    THEN gl
    ELSE
        LET found == draw_order_at_index(skeleton, slot_index)
            slot == found[1]
            page == renderer_object(skeleton, slot.attachment)
            texture == new_texture(gl.live)
            next ==
                IF found = <<>> THEN gl
                ELSE IF ex = Single /\ ~skeleton.bones[slot.bone + 1].active THEN gl
                ELSE IF slot.attachment = None THEN gl
                ELSE IF page = <<>> THEN gl
                ELSE IF gl.textures[page[1] + 1].state = "NeedsToBeLoaded"
                THEN LET spine_texture == gl.textures[page[1] + 1] IN
                     IF ~image_opens(spine_texture.path)
                     THEN [gl EXCEPT !.panic = "failed to open image"]
                     ELSE IF ~image_decodes(spine_texture.path)
                     THEN [gl EXCEPT !.panic = "failed to decode image"]
                     ELSE IF spine_texture.format \notin {"RGB8", "RGBA8"}
                     THEN [gl EXCEPT !.panic = "unreachable"]
                     ELSE [gl EXCEPT
                             !.textures[page[1] + 1] = Loaded(texture),
                             !.live = @ \cup {texture}]
                ELSE gl
        IN  IF next.panic # None
            THEN next
            ELSE ensure_textures_loaded(ex, skeleton, next, slot_index + 1)

\* main.rs 299-302, gpu_skinning.rs 765-769: the drain of the delete queue.
RECURSIVE delete_queued(_, _, _)
delete_queued(gl, queue, k) ==
    IF k > Len(queue)
    THEN gl
    ELSE delete_queued([gl EXCEPT
                            !.live = @ \ {queue[k]},
                            !.gl_calls = Append(@, [texture |-> queue[k], call |-> "delete"])],
                       queue, k + 1)

\* ctx.draw as the GL sees it: the index range, with the blend state and
\* the texture in effect; slot and cell say which loop iteration issued it.
draw_call(base_element, num_elements, blend, texture, slot, cell) ==
    [slot |-> slot.index, cell |-> cell, texture |-> texture,
     call |-> "draw", base_element |-> base_element, num_elements |-> num_elements, blend |-> blend]

\* main.rs 224-275: render_scene for one grid cell, from draw-order position
\* slot_index on.  gl is [blend, gl_calls].
RECURSIVE render_scene(_, _, _, _, _, _)
render_scene(skeleton, attachments, atlas_textures, cell, gl, slot_index) ==
    IF slot_index >= slots_count(skeleton)
    THEN gl
    ELSE
        LET found == draw_order_at_index(skeleton, slot_index)
            slot == found[1]
            attachment_name == slot.attachment
            blend == get_blend_states(slot.blend_mode, premultiplied_alpha(skeleton))
            blended == [gl EXCEPT !.blend = blend,
                                  !.gl_calls = Append(@, [call |-> "set_blend", blend |-> blend])]
            page == renderer_object(skeleton, attachment_name)
            spine_texture == atlas_textures[page[1] + 1]
            next ==
                IF found = <<>> THEN gl
                ELSE IF attachment_name = None THEN gl
                ELSE IF attachment_name \notin DOMAIN attachments THEN blended
                ELSE IF page = <<>> THEN blended
                ELSE IF spine_texture.state = "Loaded"
                THEN [blended EXCEPT !.gl_calls =
                        @ \o <<[texture |-> spine_texture.texture, call |-> "apply_bindings"],
                               draw_call(attachments[attachment_name].index_start,
                                         attachments[attachment_name].index_count,
                                         blend, spine_texture.texture, slot, cell)>>]
                ELSE blended
        IN  render_scene(skeleton, attachments, atlas_textures, cell, next, slot_index + 1)

\* main.rs 193-202, gpu_skinning.rs 742-751: Stage::view, the orthographic
\* projection of the screen, by its bounds.
view(size) ==
    [left |-> -(size[1] \div 2), right |-> size[1] \div 2,
     bottom |-> -(size[2] \div 2), top |-> size[2] \div 2]

\* A grid whose every scene leaves the baked ranges moved by one quad for
\* the scenes after it.
RECURSIVE render_grid_rebaked(_, _, _, _, _, _, _)
render_grid_rebaked(skeleton, attachments, atlas_textures, grid, frame_uniforms, gl, cell) ==
    IF cell >= grid * grid
    THEN gl
    ELSE render_grid_rebaked(skeleton,
                     [name \in DOMAIN attachments |->
                         [attachments[name] EXCEPT !.index_start = @ + 6]],
                     atlas_textures, grid, frame_uniforms,
                     render_scene(skeleton, attachments, atlas_textures, cell,
                                  [gl EXCEPT !.gl_calls =
                                      Append(@, [call |-> "apply_uniforms",
                                                 view |-> frame_uniforms.view])],
                                  0),
                     cell + 1)

\* main.rs 382-389: one scene per grid cell, row by row, each after
\* apply_uniforms(&uniforms).  The call is logged with the view of the
\* Uniforms it was given.
RECURSIVE render_grid(_, _, _, _, _, _, _)
render_grid(skeleton, attachments, atlas_textures, grid, frame_uniforms, gl, cell) ==
    IF cell >= grid * grid
    THEN gl
    ELSE render_grid(skeleton, attachments, atlas_textures, grid, frame_uniforms,
                     render_scene(skeleton, attachments, atlas_textures, cell,
                                  [gl EXCEPT !.gl_calls =
                                      Append(@, [call |-> "apply_uniforms",
                                                 view |-> frame_uniforms.view])],
                                  0),
                     cell + 1)

\* gpu_skinning.rs 823-830: the first metadata entry of a slot_index.
find_attachment_info(attachment_info, slot_index) ==
    LET matching == {k \in 1..Len(attachment_info) :
                        attachment_info[k].slot_index = u16(slot_index)}
    IN  IF matching = {}
        THEN <<>>
        ELSE <<attachment_info[CHOOSE k \in matching : \A j \in matching : k <= j]>>

\* gpu_skinning.rs 774-853: the draw loop of Stage::draw, from draw-order
\* position slot_index on.  gl is [bindings, blend, gl_calls].
RECURSIVE single_draw_slots(_, _, _, _, _)
single_draw_slots(skeleton, attachment_info, atlas_textures, gl, slot_index) ==
    IF slot_index >= slots_count(skeleton)
    THEN gl
    ELSE
        LET found == draw_order_at_index(skeleton, slot_index)
            slot == found[1]
            piped == [gl EXCEPT !.blend = NoBlend,
                                !.gl_calls = Append(@, [call |-> "apply_pipeline"])]
            page == renderer_object(skeleton, slot.attachment)
            spine_texture == atlas_textures[page[1] + 1]
            bound == [piped EXCEPT
                        !.bindings = IF spine_texture.state = "Loaded"
                                     THEN spine_texture.texture ELSE @,
                        !.gl_calls = Append(@, [texture |-> IF spine_texture.state = "Loaded"
                                                            THEN spine_texture.texture
                                                            ELSE piped.bindings,
                                                call |-> "apply_bindings"])]
            info == find_attachment_info(attachment_info, slot_index)
            next ==
                IF found = <<>> THEN gl
                ELSE IF ~skeleton.bones[slot.bone + 1].active THEN gl
                ELSE IF slot.attachment = None THEN gl
                ELSE IF page = <<>> THEN piped
                ELSE IF info = <<>> THEN bound
                ELSE [bound EXCEPT !.gl_calls =
                        @ \o <<[call |-> "apply_uniforms"],
                               draw_call(info[1].index_start, info[1].index_count,
                                         bound.blend, bound.bindings, slot, 0)>>]
        IN  single_draw_slots(skeleton, attachment_info, atlas_textures, next, slot_index + 1)

\* ------------------------------------------------------------------ inputs
\* main.rs 59-100 lists two demos, gpu_skinning.rs 595-616 one.
spine_demos_len(ex) == IF ex = Main THEN 2 ELSE 1

\* A skeleton in its setup pose: the root bone and ExtraBones more, of which
\* the last may be inactive (a skin bone outside the skin); the draw order
\* is the slot order.
SetupSkeleton(slots, last_active) ==
    [bones |-> <<>> \o [k \in 1..(ExtraBones + 1) |->
                            Bone(k - 1, (k <= ExtraBones) \/ last_active, 0)],
     atlas |-> Atlas(1, FALSE),
     slots |-> <<>> \o [k \in 1..Len(slots) |-> [slots[k] EXCEPT !.index = k - 1]],
     draw_order |-> <<>> \o [k \in 1..Len(slots) |-> k - 1]]

SeqsUpTo(S, n) == UNION {[1..m -> S] : m \in 1..n}

\* Skeleton files offered to the baker: up to MaxSlots slots, each on the
\* root or the last bone, with any attachment or none.
BakeSkeletons ==
    {SetupSkeleton(slots, last_active) :
        slots \in SeqsUpTo({Slot(b, a) : b \in {0, ExtraBones},
                                         a \in AttachmentNames \cup {None}}, MaxSlots),
        last_active \in BOOLEAN}

\* A large mesh followed by a region.
LargeSkeleton == SetupSkeleton(<<Slot(0, "large"), Slot(0, "region")>>, TRUE)

\* The first demo is any of these files, the second a region and a mesh.
BakeFiles(demo) ==
    IF demo = 0
    THEN BakeSkeletons \cup {LargeSkeleton}
    ELSE {SetupSkeleton(<<Slot(0, "region"), Slot(ExtraBones, "mesh")>>, TRUE)}

\* Skeleton files of the frame loop: MaxSlots slots, slot k on bone k + 1
\* (modulo the bone count).
FrameSetup(pattern, k) ==
    CASE pattern = "region-mesh" -> IF k % 2 = 0 THEN "region" ELSE "mesh"
      [] pattern = "mesh-region" -> IF k % 2 = 0 THEN "mesh" ELSE "region"
      [] pattern = "regions" -> "region"
      [] pattern = "clip-region" -> IF k = 0 THEN "clip" ELSE "region"

FrameSkeleton(pattern, last_active) ==
    SetupSkeleton([k \in 1..MaxSlots |->
                      Slot(k % (ExtraBones + 1), FrameSetup(pattern, k - 1))],
                  last_active)

\* The same file with the blend modes of its slots taken in turn from
\* BlendModes, starting at first_mode, and with its atlas.
Painted(data, first_mode, atlas) ==
    [data EXCEPT
        !.slots = <<>> \o [k \in 1..Len(@) |->
                              [@[k] EXCEPT !.blend_mode =
                                  BlendModes[((first_mode + k - 1) % Len(BlendModes)) + 1]]],
        !.atlas = atlas]

\* A skeleton of one bone more than the bone table holds, a region on its
\* last bone.
ManyBonesSkeleton ==
    [SetupSkeleton(<<Slot(BONES, "region")>>, TRUE) EXCEPT
        !.bones = <<>> \o [k \in 1..(BONES + 1) |-> Bone(k - 1, TRUE, 0)]]

FrameSkeletons ==
    {FrameSkeleton(pattern, TRUE) : pattern \in {"region-mesh", "clip-region"}}
    \cup {FrameSkeleton("region-mesh", FALSE), ManyBonesSkeleton}

FrameFiles(demo) ==
    IF demo = 0 THEN FrameSkeletons ELSE {FrameSkeleton("mesh-region", TRUE)}

\* Skeleton files of the draw loop: between them the files have every
\* blend mode with and without premultiplied alpha.
DrawFiles(demo) ==
    IF demo = 0
    THEN {Painted(FrameSkeleton("region-mesh", TRUE), 0, Atlas(1, FALSE)),
          Painted(FrameSkeleton("region-mesh", FALSE), 2, Atlas(1, TRUE)),
          Painted(FrameSkeleton("clip-region", TRUE), 2, Atlas(1, FALSE))}
    ELSE {Painted(FrameSkeleton("mesh-region", TRUE), 0, Atlas(1, TRUE))}

\* Skeleton files of the texture life cycle: two atlas pages, the regions
\* on the first and the meshes on the second.
TextureFiles(demo) ==
    IF demo = 0
    THEN {Painted(FrameSkeleton("region-mesh", TRUE), 0, Atlas(2, FALSE)),
          Painted(FrameSkeleton("regions", TRUE), 0, Atlas(2, FALSE))}
    ELSE {Painted(FrameSkeleton("mesh-region", TRUE), 0, Atlas(2, TRUE))}

\* The pages an atlas file can declare: every pair of filters with every
\* format, and every pair of wraps.
AtlasPages(pma) ==
    {AtlasPage("page.png", min_filter, mag_filter, "ClampToEdge", "ClampToEdge", format,
               pma) :
        min_filter \in AtlasFilters, mag_filter \in AtlasFilters, format \in AtlasFormats}
    \cup {AtlasPage("page.png", "Linear", "Linear", u_wrap, v_wrap, "RGBA8888", pma) :
            u_wrap \in AtlasWraps, v_wrap \in AtlasWraps}

\* The page of an atlas whose image is the file of that name.
ImagePage(name) ==
    AtlasPage(name, "Linear", "Linear", "ClampToEdge", "ClampToEdge", "RGBA8888", FALSE)

\* Atlas files of two pages: the first page is any page over a good image,
\* or the image of one of the pages does not open or does not decode.
AtlasFiles(demo) ==
    IF demo = 0
    THEN {Painted(FrameSkeleton("region-mesh", TRUE), 0,
                  AtlasOf(<<atlas_page, ImagePage("page.png")>>)) : atlas_page \in AtlasPages(FALSE)}
         \cup {Painted(FrameSkeleton("region-mesh", TRUE), 0,
                       AtlasOf(<<ImagePage("page.png"), ImagePage(name)>>)) :
                  name \in Images}
         \cup {Painted(FrameSkeleton("region-mesh", TRUE), 0,
                       AtlasOf(<<ImagePage(name), ImagePage("page.png")>>)) :
                  name \in Images}
    ELSE {Painted(FrameSkeleton("mesh-region", TRUE), 0,
                  AtlasOf(<<ImagePage("page.png"), atlas_page>>)) :
             atlas_page \in {AtlasPage("page.png", "MipMap", "Nearest", "Unknown", "Repeat",
                                       format, TRUE) : format \in AtlasFormats}}

\* Skeleton files of the demos whose replaced atlas another thread drops:
\* a region and a mesh on the page of an atlas, in either order.
QueueFiles(demo) ==
    IF demo = 0
    THEN {Painted(FrameSkeleton("region-mesh", TRUE), 0, Atlas(1, FALSE))}
    ELSE {Painted(FrameSkeleton("mesh-region", TRUE), 0, Atlas(1, TRUE))}

\* Skeleton files of the grid: a region and a mesh in either order.
GridFiles(demo) ==
    IF demo = 0
    THEN {FrameSkeleton("region-mesh", TRUE)}
    ELSE {FrameSkeleton("mesh-region", TRUE)}

\* What the animations of a specification do: the bone poses they reach,
\* whether the meshes they bind are deformed, and whether they change the
\* draw order.
FrameAnimation == [deform |-> TRUE, poses |-> 0..MaxPose, reorder |-> TRUE]

DrawAnimation == [deform |-> FALSE, poses |-> {0}, reorder |-> TRUE]

TextureAnimation == [deform |-> FALSE, poses |-> {0}, reorder |-> FALSE]

\* The sizes the window is given, in pixels.
WindowSizes == {<<800, 600>>}

\* The keys pressed.
Keycodes == {"Equal", "Minus", "Space", "Other"}

\* ------------------------------------------------------------------- state
VARIABLES
    example,             \* which example program runs
    pc,                  \* "running", or "panicked" once the process aborted
    current_spine_demo,  \* Stage.current_spine_demo
    grid_size,           \* Stage.grid_size
    skeleton,            \* Stage.spine.controller.skeleton, the live pose
    buffers,             \* Stage.spine.buffers, as baked
    stdout,              \* the lines printed by the latest bake
    uniforms,            \* <<the tables built by draw for the live pose>>, or <<>>
    textures,            \* the SpineTexture of every page of the live atlas
    texture_delete_queue, \* the handles queued by the dispose callback
    gl_textures,         \* the handles of the GL textures that exist
    bindings,            \* Stage.bindings.images[0] of gpu_skinning.rs, 0 the empty texture
    screen_size,         \* Stage.screen_size
    queue_lock,          \* the thread that holds the mutex of the delete queue, or None
    render_at,           \* where the render thread is in Stage::draw, or "idle"
    disposing,           \* the SpineTextures of the pages another thread still disposes
    gl_calls             \* the GL calls of the draw pass of the live pose, or <<>>

vars == <<example, pc, current_spine_demo, grid_size, skeleton, buffers, stdout, uniforms,
          textures, texture_delete_queue, gl_textures, bindings, screen_size, queue_lock,
          render_at, disposing, gl_calls>>

\* The variables of the threads that share the delete queue.
threads == <<queue_lock, render_at, disposing>>

\* The attachments map of SkeletonBuffers (main.rs 430-434): by attachment
\* name, the index range of the attachment and its position among the baked
\* attachments.
attachment_metadata(data, attachment_info) ==
    LET name_at(k) == draw_order_at_index(data, attachment_info[k].slot_index)[1].attachment
        names == {name_at(k) : k \in 1..Len(attachment_info)}
    IN  [name \in names |->
            LET k == CHOOSE k \in 1..Len(attachment_info) :
                        /\ name_at(k) = name
                        /\ \A j \in 1..Len(attachment_info) : name_at(j) = name => j <= k
            IN  [index_count |-> attachment_info[k].index_count,
                 index_start |-> attachment_info[k].index_start,
                 attachment_index |-> k - 1]]

EmptyBuffers ==
    [vertices |-> <<>>, indices |-> <<>>, attachment_info |-> <<>>, attachments |-> <<>>]

\* Spine::load (spine.rs 20-89, gpu_skinning.rs 167-234): the skeleton in
\* its setup pose and its baked buffers.
Spine_load(ex, data, garbage, overflow_checks) ==
    LET baked == IF ex = Main
                 THEN build_skeleton_buffers(data, garbage, overflow_checks)
                 ELSE single_build_skeleton_buffers(data, overflow_checks)
    IN  [stdout |-> create_textures(data.atlas).stdout \o baked.stdout,
         panicked |-> baked.panicked,
         textures |-> create_textures(data.atlas).textures,
         buffers |-> IF baked.panicked
                     THEN EmptyBuffers
                     ELSE [vertices |-> baked.vertices,
                           indices |-> baked.indices,
                           attachment_info |-> baked.attachment_info,
                           attachments |-> attachment_metadata(data, baked.attachment_info)]]

\* Stage::new (main.rs 58-120, gpu_skinning.rs 594-643): the first demo is
\* loaded.
InitOn(files) ==
    /\ example \in Examples
    /\ current_spine_demo = 0
    /\ grid_size = 1
    /\ uniforms = <<>>
    /\ texture_delete_queue = <<>>
    /\ gl_textures = {}
    /\ bindings = 0
    /\ screen_size = <<800, 600>>
    /\ queue_lock = None
    /\ render_at = "idle"
    /\ disposing = <<>>
    /\ gl_calls = <<>>
    /\ \E data \in files[0], garbage \in 0..MaxGarbage, overflow_checks \in BOOLEAN :
        LET loaded == Spine_load(example, data, garbage, overflow_checks) IN
        /\ skeleton = data
        /\ textures = loaded.textures
        /\ buffers = loaded.buffers
        /\ stdout = loaded.stdout
        /\ pc = IF loaded.panicked THEN "panicked" ELSE "running"

\* ----------------------------------------------------------------- actions
\* The draw orders an animation reaches: the rotations of the slot order.
DrawOrders(n) == {[k \in 1..n |-> (k - 1 + r) % n] : r \in 0..(n - 1)}

\* The deform floats an animation gives the mesh of a slot.
DeformFloats(slot_index) == [k \in 1..6 |-> 10 * (slot_index + 1) + k]

\* What an animation binds to a slot: nothing, a region, or a mesh with or
\* without deform floats.
SlotPoses(slot, slot_index) ==
    {[slot EXCEPT !.attachment = a, !.deform = <<>>] : a \in {None, "region", "mesh"}}
    \cup {[slot EXCEPT !.attachment = "mesh", !.deform = DeformFloats(slot_index)]}

\* Stage::update (main.rs 279-294, gpu_skinning.rs 755-760): the animation
\* moves the bones, rebinds the attachment of a slot or changes the draw
\* order.  The tables of the previous frame do not describe the new pose.
update(animation) ==
    /\ pc = "running"
    /\ \/ \E t \in animation.poses :
            skeleton' = [skeleton EXCEPT !.bones =
                            [k \in 1..Len(@) |-> Bone(k - 1, @[k].active, t)]]
       \/ \E k \in 1..Len(skeleton.slots) :
            \E pose \in SlotPoses(skeleton.slots[k], k - 1) :
                /\ pose.attachment = "mesh" => (animation.deform <=> pose.deform # <<>>)
                /\ skeleton' = [skeleton EXCEPT !.slots[k] = pose]
       \/ \E order \in DrawOrders(Len(skeleton.slots)) :
            /\ animation.reorder \/ order = skeleton.draw_order
            /\ skeleton' = [skeleton EXCEPT !.draw_order = order]
    /\ uniforms' = <<>>
    /\ gl_calls' = <<>>
    /\ UNCHANGED <<example, pc, current_spine_demo, grid_size, buffers, stdout,
                   textures, texture_delete_queue, gl_textures, bindings, screen_size>>
    /\ UNCHANGED threads

\* Stage::draw (main.rs 296-393, gpu_skinning.rs 762-866): the textures are
\* loaded and the delete queue drained; main.rs then runs the bone, slot and
\* deform passes and renders the grid, gpu_skinning.rs its draw loop.
draw ==
    /\ pc = "running"
    /\ LET ensured == ensure_textures_loaded(example, skeleton,
                           [textures |-> textures, live |-> gl_textures, panic |-> None,
                            gl_calls |-> <<>>], 0)
           drained == delete_queued(ensured, texture_delete_queue, 1)
           bone_table == bone_pass(skeleton)
           slot_table == slot_pass(skeleton, buffers.attachments)
           deform_table == deform_pass(skeleton)
           piped == [gl_calls |-> Append(drained.gl_calls, [call |-> "apply_pipeline"]),
                     blend |-> NoBlend]
           frame_uniforms == [bones |-> bone_table.bones,
                              deform |-> deform_table.deform,
                              slot_bones |-> slot_table.slot_bones,
                              attachment_slots |-> slot_table.attachment_slots,
                              deform_offsets |-> deform_table.deform_offsets,
                              view |-> view(screen_size)]
           looped == single_draw_slots(skeleton, buffers.attachment_info, ensured.textures,
                        [gl_calls |-> drained.gl_calls, blend |-> NoBlend,
                         bindings |-> bindings], 0)
       IN  IF ensured.panic # None
           THEN /\ pc' = "panicked"
                /\ textures' = ensured.textures
                /\ gl_textures' = ensured.live
                /\ gl_calls' = ensured.gl_calls
                /\ UNCHANGED <<texture_delete_queue, uniforms, bindings>>
           ELSE
           /\ textures' = ensured.textures
           /\ texture_delete_queue' = <<>>
           /\ gl_textures' = drained.live
           /\ IF example = Main
              THEN /\ IF bone_table.panicked \/ slot_table.panicked \/ deform_table.panicked
                      THEN /\ pc' = "panicked"
                           /\ gl_calls' = piped.gl_calls
                           /\ UNCHANGED uniforms
                      ELSE /\ uniforms' = <<frame_uniforms>>
                           /\ gl_calls' = render_grid(skeleton, buffers.attachments,
                                              ensured.textures, grid_size, frame_uniforms,
                                              piped, 0).gl_calls
                           /\ UNCHANGED pc
                   /\ UNCHANGED bindings
              ELSE /\ gl_calls' = looped.gl_calls
                   /\ bindings' = looped.bindings
                   /\ UNCHANGED <<pc, uniforms>>
    /\ UNCHANGED <<example, current_spine_demo, grid_size, skeleton, buffers, stdout,
                   screen_size>>
    /\ UNCHANGED threads

\* Stage::key_down_event (main.rs 399-420): = and - resize the grid, Space
\* loads the next demo; the spine it replaces is dropped, which disposes the
\* pages of its atlas.
key_down_event(files, keycodes) ==
    /\ pc = "running"
    /\ example = Main
    /\ \E keycode \in keycodes, repeat \in BOOLEAN :
        LET grid == CASE keycode = "Equal" -> Min(grid_size + 1, 100)
                      [] keycode = "Minus" -> IF grid_size - 1 > 1 THEN grid_size - 1 ELSE 1
                      [] OTHER -> grid_size
        IN  /\ grid <= MaxGrid
            /\ grid_size' = grid
            /\ IF ~repeat /\ keycode = "Space"
               THEN LET next_demo == (current_spine_demo + 1) % spine_demos_len(example) IN
                    \E data \in files[next_demo], garbage \in 0..MaxGarbage,
                       overflow_checks \in BOOLEAN :
                        LET loaded == Spine_load(example, data, garbage, overflow_checks) IN
                        /\ current_spine_demo' = next_demo
                        /\ IF loaded.panicked
                           THEN /\ pc' = "panicked"
                                /\ UNCHANGED <<skeleton, buffers, stdout, uniforms,
                                               textures, texture_delete_queue, gl_calls>>
                           ELSE /\ skeleton' = data
                                /\ buffers' = loaded.buffers
                                /\ stdout' = loaded.stdout
                                /\ uniforms' = <<>>
                                /\ textures' = loaded.textures
                                /\ texture_delete_queue' =
                                        dispose_atlas(texture_delete_queue, textures, 0)
                                /\ gl_calls' = <<>>
                                /\ UNCHANGED pc
               ELSE UNCHANGED <<pc, current_spine_demo, skeleton, buffers, stdout, uniforms,
                                textures, texture_delete_queue, gl_calls>>
    /\ UNCHANGED <<example, gl_textures, bindings, screen_size>>
    /\ UNCHANGED threads

\* Stage::resize_event (main.rs 395-397): the window has a new size, in
\* pixels of a display of some dpi scale.
resize_event(sizes) ==
    /\ pc = "running"
    /\ example = Main
    /\ \E size \in sizes, dpi_scale \in {1, 2} :
        screen_size' = <<size[1] \div dpi_scale, size[2] \div dpi_scale>>
    /\ UNCHANGED <<example, pc, current_spine_demo, grid_size, skeleton, buffers, stdout,
                   uniforms, textures, texture_delete_queue, gl_textures, bindings, gl_calls>>
    /\ UNCHANGED threads

\* ------------------------------------- the draw pass and the dispose thread
\* Stage::draw step by step, for the interleavings with a thread that
\* disposes the pages of a dropped atlas.
\*
\* The calls of a pass after the drain, and what the pass leaves in the
\* stage (main.rs 304-392, gpu_skinning.rs 771-866).
scene_pass ==
    LET bone_table == bone_pass(skeleton)
        slot_table == slot_pass(skeleton, buffers.attachments)
        deform_table == deform_pass(skeleton)
        piped == [gl_calls |-> <<[call |-> "apply_pipeline"]>>, blend |-> NoBlend]
        frame_uniforms == [bones |-> bone_table.bones,
                           deform |-> deform_table.deform,
                           slot_bones |-> slot_table.slot_bones,
                           attachment_slots |-> slot_table.attachment_slots,
                           deform_offsets |-> deform_table.deform_offsets,
                           view |-> view(screen_size)]
        looped == single_draw_slots(skeleton, buffers.attachment_info, textures,
                     [gl_calls |-> <<>>, blend |-> NoBlend, bindings |-> bindings], 0)
        panicked == bone_table.panicked \/ slot_table.panicked \/ deform_table.panicked
    IN  IF example = Main
        THEN [panicked |-> panicked,
              gl_calls |-> IF panicked
                           THEN piped.gl_calls
                           ELSE render_grid(skeleton, buffers.attachments, textures,
                                            grid_size, frame_uniforms, piped, 0).gl_calls,
              bindings |-> bindings,
              uniforms |-> IF panicked THEN uniforms ELSE <<frame_uniforms>>]
        ELSE [panicked |-> FALSE,
              gl_calls |-> looped.gl_calls,
              bindings |-> looped.bindings,
              uniforms |-> uniforms]

\* The calls of the pass that follow its delete calls.
scene_calls_issued == SelectSeq(gl_calls, LAMBDA c : c.call # "delete")

\* main.rs 297, gpu_skinning.rs 763: the pass starts by loading the textures.
draw_begin ==
    /\ pc = "running"
    /\ render_at = "idle"
    /\ LET ensured == ensure_textures_loaded(example, skeleton,
                           [textures |-> textures, live |-> gl_textures, panic |-> None,
                            gl_calls |-> <<>>], 0)
       IN  /\ textures' = ensured.textures
           /\ gl_textures' = ensured.live
           /\ gl_calls' = <<>>
           /\ IF ensured.panic # None
              THEN pc' = "panicked" /\ UNCHANGED render_at
              ELSE render_at' = "lock" /\ UNCHANGED pc
    /\ UNCHANGED <<example, current_spine_demo, grid_size, skeleton, buffers, stdout,
                   uniforms, texture_delete_queue, bindings, screen_size, queue_lock,
                   disposing>>

\* The drain entered without the mutex.
drain_lock_unheld ==
    /\ pc = "running"
    /\ render_at = "lock"
    /\ render_at' = "drain"
    /\ UNCHANGED <<example, pc, current_spine_demo, grid_size, skeleton, buffers, stdout,
                   uniforms, textures, texture_delete_queue, gl_textures, bindings,
                   screen_size, queue_lock, disposing, gl_calls>>

\* main.rs 300, gpu_skinning.rs 767: self.texture_delete_queue.lock() waits
\* for the mutex; the guard lives as long as the for loop.
drain_lock ==
    /\ pc = "running"
    /\ render_at = "lock"
    /\ queue_lock = None
    /\ queue_lock' = "render"
    /\ render_at' = "drain"
    /\ UNCHANGED <<example, pc, current_spine_demo, grid_size, skeleton, buffers, stdout,
                   uniforms, textures, texture_delete_queue, gl_textures, bindings,
                   screen_size, disposing, gl_calls>>

\* main.rs 300-302, gpu_skinning.rs 767-769: drain(..) yields the next
\* handle and the body of the loop deletes it.
drain_next ==
    /\ pc = "running"
    /\ render_at = "drain"
    /\ texture_delete_queue # <<>>
    /\ LET deleted == delete_queued([textures |-> textures, live |-> gl_textures,
                                     panic |-> None, gl_calls |-> gl_calls],
                                    <<Head(texture_delete_queue)>>, 1)
       IN  /\ gl_textures' = deleted.live
           /\ gl_calls' = deleted.gl_calls
    /\ texture_delete_queue' = Tail(texture_delete_queue)
    /\ UNCHANGED <<example, pc, current_spine_demo, grid_size, skeleton, buffers, stdout,
                   uniforms, textures, bindings, screen_size, queue_lock, render_at,
                   disposing>>

\* main.rs 302, gpu_skinning.rs 769: the loop ends on the empty queue and
\* the guard is dropped.
drain_unlock ==
    /\ pc = "running"
    /\ render_at = "drain"
    /\ texture_delete_queue = <<>>
    /\ queue_lock' = None
    /\ render_at' = "scene"
    /\ UNCHANGED <<example, pc, current_spine_demo, grid_size, skeleton, buffers, stdout,
                   uniforms, textures, texture_delete_queue, gl_textures, bindings,
                   screen_size, disposing, gl_calls>>

\* The calls of a pass from the one after issued up to its next draw call,
\* or up to its last call.
RECURSIVE up_to_draw(_, _)
up_to_draw(calls, issued) ==
    IF issued >= Len(calls)
    THEN <<>>
    ELSE IF calls[issued + 1].call = "draw"
    THEN <<calls[issued + 1]>>
    ELSE <<calls[issued + 1]>> \o up_to_draw(calls, issued + 1)

\* main.rs 304-392, gpu_skinning.rs 771-866: the calls of the pass up to
\* its next draw call are issued, or the pass ends.
scene_step ==
    /\ pc = "running"
    /\ render_at = "scene"
    /\ LET issued == Len(scene_calls_issued) IN
       IF issued < Len(scene_pass.gl_calls)
       THEN /\ gl_calls' = gl_calls \o up_to_draw(scene_pass.gl_calls, issued)
            /\ UNCHANGED <<pc, uniforms, bindings, render_at>>
       ELSE /\ pc' = IF scene_pass.panicked THEN "panicked" ELSE pc
            /\ uniforms' = scene_pass.uniforms
            /\ bindings' = scene_pass.bindings
            /\ render_at' = "idle"
            /\ UNCHANGED gl_calls
    /\ UNCHANGED <<example, current_spine_demo, grid_size, skeleton, buffers, stdout,
                   textures, texture_delete_queue, gl_textures, screen_size, queue_lock,
                   disposing>>

\* The Space key of key_down_event (main.rs 416-419) with the replaced spine
\* handed to another thread to drop: the pages of its atlas wait to be
\* disposed there.
key_down_event_handing_over(files) ==
    /\ pc = "running"
    /\ example = Main
    /\ render_at = "idle"
    /\ Len(disposing) + Len(textures) <= MaxDisposing
    /\ LET next_demo == (current_spine_demo + 1) % spine_demos_len(example) IN
       \E data \in files[next_demo], garbage \in 0..MaxGarbage, overflow_checks \in BOOLEAN :
            LET loaded == Spine_load(example, data, garbage, overflow_checks) IN
            /\ ~loaded.panicked
            /\ current_spine_demo' = next_demo
            /\ skeleton' = data
            /\ buffers' = loaded.buffers
            /\ stdout' = loaded.stdout
            /\ uniforms' = <<>>
            /\ textures' = loaded.textures
            /\ disposing' = disposing \o textures
            /\ gl_calls' = <<>>
    /\ UNCHANGED <<example, pc, grid_size, texture_delete_queue, gl_textures, bindings,
                   screen_size, queue_lock, render_at>>

\* The dispose callback on the other thread (main.rs 29-36): for a Loaded
\* texture, texture_delete_queue_cb.lock() waits for the mutex.
dispose_lock ==
    /\ disposing # <<>>
    /\ Head(disposing).state = "Loaded"
    /\ queue_lock = None
    /\ queue_lock' = "dispose"
    /\ UNCHANGED <<example, pc, current_spine_demo, grid_size, skeleton, buffers, stdout,
                   uniforms, textures, texture_delete_queue, gl_textures, bindings,
                   screen_size, render_at, disposing, gl_calls>>

\* main.rs 33-35: the handle is pushed, the guard is dropped at the end of
\* the statement and the renderer object of the page is disposed.
dispose_push ==
    /\ queue_lock = "dispose"
    /\ texture_delete_queue' = dispose_texture_cb(texture_delete_queue, Head(disposing))
    /\ disposing' = Tail(disposing)
    /\ queue_lock' = None
    /\ UNCHANGED <<example, pc, current_spine_demo, grid_size, skeleton, buffers, stdout,
                   uniforms, textures, gl_textures, bindings, screen_size, render_at,
                   gl_calls>>

\* main.rs 30-35: a page whose texture is not Loaded pushes nothing.
dispose_unloaded ==
    /\ disposing # <<>>
    /\ Head(disposing).state # "Loaded"
    /\ disposing' = Tail(disposing)
    /\ UNCHANGED <<example, pc, current_spine_demo, grid_size, skeleton, buffers, stdout,
                   uniforms, textures, texture_delete_queue, gl_textures, bindings,
                   screen_size, queue_lock, render_at, gl_calls>>

\* ---------------------------------------------------------- specifications
\* The frame loop of both examples.
Init == InitOn([demo \in 0..1 |-> FrameFiles(demo)])

Next ==
    \/ update(FrameAnimation)
    \/ draw
    \/ key_down_event([demo \in 0..1 |-> FrameFiles(demo)], {"Space", "Other"})

Spec == Init /\ [][Next]_vars

\* The draw loop of both examples: every blend mode, an animation that
\* rebinds attachments and changes the draw order, a grid of any size.
DrawInit == InitOn([demo \in 0..1 |-> DrawFiles(demo)])

DrawNext ==
    \/ update(DrawAnimation)
    \/ draw
    \/ key_down_event([demo \in 0..1 |-> DrawFiles(demo)], Keycodes)

DrawSpec == DrawInit /\ [][DrawNext]_vars

\* The texture life cycle of both examples: two-page atlases, an animation
\* that rebinds attachments, reloads.
TextureInit == InitOn([demo \in 0..1 |-> TextureFiles(demo)])

TextureNext ==
    \/ update(TextureAnimation)
    \/ draw
    \/ key_down_event([demo \in 0..1 |-> TextureFiles(demo)], {"Space"})

TextureSpec == TextureInit /\ [][TextureNext]_vars

\* The grid of main.rs: resized windows, grids of any size, an animation
\* that rebinds attachments, reloads.
GridInit == InitOn([demo \in 0..1 |-> GridFiles(demo)])

GridNext ==
    \/ update(TextureAnimation)
    \/ draw
    \/ key_down_event([demo \in 0..1 |-> GridFiles(demo)], Keycodes)
    \/ resize_event(WindowSizes)

GridSpec == GridInit /\ [][GridNext]_vars

\* The create-texture callback and the loading of the images of both
\* examples: atlases of every filter, wrap and format, images that fail.
AtlasInit == InitOn([demo \in 0..1 |-> AtlasFiles(demo)])

AtlasNext ==
    \/ draw
    \/ key_down_event([demo \in 0..1 |-> AtlasFiles(demo)], {"Space"})

AtlasSpec == AtlasInit /\ [][AtlasNext]_vars

\* The delete queue between the render thread and a thread that disposes
\* the pages of the replaced atlases, in any interleaving of their steps.
QueueInit == InitOn([demo \in 0..1 |-> QueueFiles(demo)])

render_thread ==
    \/ draw_begin
    \/ drain_lock
    \/ drain_next
    \/ drain_unlock
    \/ scene_step

QueueNext ==
    \/ render_thread
    \/ key_down_event_handing_over([demo \in 0..1 |-> QueueFiles(demo)])
    \/ dispose_lock
    \/ dispose_push
    \/ dispose_unloaded

QueueSpec == QueueInit /\ [][QueueNext]_vars

\* Loading: every skeleton file of BakeSkeletons, and the large one, baked
\* by Stage::new or by a reload.
BakeInit == InitOn([demo \in 0..1 |-> BakeFiles(demo)])

BakeNext == key_down_event([demo \in 0..1 |-> BakeFiles(demo)], Keycodes)

BakeSpec == BakeInit /\ [][BakeNext]_vars

\* ------------------------------------------------------------ bake claims
\* The entries of the baked metadata, and the slot an entry was baked from
\* (the skeleton of a loading specification stays in its setup pose).
info == buffers.attachment_info

baked_slot(entry) == draw_order_at_index(skeleton, entry.slot_index)[1]

\* The draw-order positions whose slot the baker does not skip: the bone is
\* active and an attachment is bound.
baked_positions ==
    {p \in 0..(slots_count(skeleton) - 1) :
        LET found == draw_order_at_index(skeleton, p) IN
        /\ found # <<>>
        /\ skeleton.bones[found[1].bone + 1].active
        /\ found[1].attachment # None}

attachment_at(p) == draw_order_at_index(skeleton, p)[1].attachment

entries_of(p) == {k \in 1..Len(info) : info[k].slot_index = p}

\* The indices of an entry's range.
range_indices(entry) ==
    SubSeq(buffers.indices, entry.index_start + 1, entry.index_start + entry.index_count)

\* C1: after a bake the index ranges of the metadata entries, in emission
\* order, partition the index buffer: the first starts at 0, each next one
\* starts where the previous one ends, the last ends at the buffer length.
C1_IndexRangesPartition ==
    pc = "running" =>
        /\ \A k \in 1..Len(info) : info[k].index_count >= 0
        /\ Len(info) = 0 => Len(buffers.indices) = 0
        /\ Len(info) > 0 =>
            /\ info[1].index_start = 0
            /\ info[Len(info)].index_start + info[Len(info)].index_count
                    = Len(buffers.indices)
        /\ \A k \in 1..(Len(info) - 1) :
                info[k + 1].index_start = info[k].index_start + info[k].index_count

\* Two attachments with indices were baked by spine.rs.
C1_Witness ==
    /\ pc = "running"
    /\ example = Main
    /\ Len(info) = 2
    /\ info[1].index_count > 0
    /\ info[2].index_count > 0
    /\ info[2].index_start > 0

\* C2: every index inside an entry's range is a vertex position of the same
\* entry, in [vertex_start, vertex_start + vertex_count).
C2_IndicesReferenceOwnVertices ==
    pc = "running" =>
        \A k \in 1..Len(info) :
            \A i \in 1..info[k].index_count :
                /\ range_indices(info[k])[i] >= info[k].vertex_start
                /\ range_indices(info[k])[i] < info[k].vertex_start + info[k].vertex_count

\* C3: a region baked when b vertices were emitted appends 4 vertices and
\* the indices b, b+1, b+2, b+2, b+3, b, and has one metadata entry of 6
\* indices.
C3_RegionBakesQuad ==
    pc = "running" =>
        \A p \in baked_positions :
            as_region(attachment_at(p)) =>
                /\ Cardinality(entries_of(p)) = 1
                /\ \A k \in entries_of(p) :
                    /\ info[k].vertex_count = 4
                    /\ info[k].index_count = 6
                    /\ range_indices(info[k]) = quad_indices(info[k].vertex_start)

\* C4: an unweighted mesh of V source vertices is baked as V vertices of
\* weights 1, 0, 0, 0 and triangles_count indices; it is never dropped.
C4_UnweightedMeshBaked ==
    pc = "running" =>
        \A p \in baked_positions :
            LET mesh == attachment_data(attachment_at(p)) IN
            as_mesh(attachment_at(p)) /\ ~has_bones(mesh) =>
                \E k \in entries_of(p) :
                    /\ info[k].vertex_count = Len(mesh.vertices) \div 2
                    /\ info[k].index_count = Len(mesh.triangles)
                    /\ \A v \in 1..info[k].vertex_count :
                        buffers.vertices[info[k].vertex_start + v].bone_weights
                            = <<ONE, 0, 0, 0>>

\* The influence stream of a weighted mesh as Spine lays it out: per vertex
\* a count n in bones followed by n bone indices, and in vertices n tuples
\* (x, y, weight).  One sequence of influences per vertex.
RECURSIVE declared_influences(_, _, _)
declared_influences(mesh, cursor, first) ==
    IF cursor >= Len(mesh.bones)
    THEN <<>>
    ELSE
        LET n == mesh.bones[cursor + 1]
            influences ==
                [j \in 1..n |->
                    [bone |-> mesh.bones[cursor + 1 + j],
                     weight |-> mesh.vertices[(first + j - 1) * 3 + 3],
                     position |-> <<mesh.vertices[(first + j - 1) * 3 + 1],
                                    mesh.vertices[(first + j - 1) * 3 + 2]>>]]
        IN  <<influences>> \o declared_influences(mesh, cursor + 1 + n, first + n)

truncation_warned == \E i \in 1..Len(stdout) : stdout[i].line = "warning"

\* C5: a weighted-mesh vertex declaring n influences is stored with its
\* first min(n, 4) influences (bone indices, positions, weights); a
\* truncation warning is issued exactly when some vertex declares more than 4.
C5_FirstFourInfluencesKept ==
    pc = "running" /\ example = Main =>
        \A p \in baked_positions :
            LET mesh == attachment_data(attachment_at(p)) IN
            as_mesh(attachment_at(p)) /\ has_bones(mesh) =>
                LET declared == declared_influences(mesh, 0, 0) IN
                /\ truncation_warned <=> \E v \in 1..Len(declared) : Len(declared[v]) > 4
                /\ \E k \in entries_of(p) :
                    \A v \in 1..Len(declared) :
                        /\ info[k].vertex_start + v <= Len(buffers.vertices)
                        /\ LET stored == buffers.vertices[info[k].vertex_start + v]
                               n == Min(Len(declared[v]), 4)
                           IN  \A j \in 1..4 :
                                IF j <= n
                                THEN /\ stored.bone_indices[j] = declared[v][j].bone
                                     /\ stored.positions[j] = declared[v][j].position
                                     /\ stored.bone_weights[j] = declared[v][j].weight
                                ELSE stored.bone_weights[j] = 0

Abs(x) == IF x < 0 THEN -x ELSE x

\* C6: the 4 bone weights of every baked vertex sum to 1.0 within 1e-4.
C6_WeightsSumToOne ==
    pc = "running" =>
        \A v \in 1..Len(buffers.vertices) :
            LET w == buffers.vertices[v].bone_weights IN
            Abs(w[1] + w[2] + w[3] + w[4] - ONE) <= 1

\* C7: a slot bound to an attachment that is neither a region nor a mesh
\* contributes no vertices, no indices and no metadata entry.
C7_ClippingContributesNothing ==
    pc = "running" =>
        \A p \in baked_positions :
            ~as_region(attachment_at(p)) /\ ~as_mesh(attachment_at(p)) =>
                entries_of(p) = {}

\* C8: a bake whose vertex or index count exceeds MAX_MESH_VERTICES,
\* MAX_MESH_INDICES or the range of a u16 index fails: buffers over the
\* capacity are never returned.
C8_CapacityExceededFails ==
    pc = "running" =>
        /\ Len(buffers.vertices) <= MAX_MESH_VERTICES
        /\ Len(buffers.vertices) <= 65536
        /\ Len(buffers.indices) <= MAX_MESH_INDICES

\* ----------------------------------------------------------- frame claims
\* The tables built by the latest draw, for the live pose.
tables == uniforms[1]

\* A 4x4 matrix, given by columns, applied to the point (x, y, 0, 1).
transform_point(matrix, x, y) ==
    [r \in 1..4 |-> matrix[1][r] * x + matrix[2][r] * y + matrix[4][r]]

\* The world affine transform of a bone applied to the point (x, y).
world_point(bone, x, y) ==
    <<bone.pose.a * x + bone.pose.b * y + bone.pose.world_x,
      bone.pose.c * x + bone.pose.d * y + bone.pose.world_y,
      0, 1>>

\* C9: after the bone pass the table entry at the index of every bone,
\* active or not, is the 4x4 matrix of that bone's world transform, and
\* every entry past the bones is the identity.
C9_BoneTableByBoneIndex ==
    uniforms # <<>> =>
        /\ \A i \in 0..(Len(skeleton.bones) - 1) :
            /\ tables.bones[i + 1] = get_bone_transforms(skeleton)[i + 1]
            /\ tables.bones[i + 1][3] = <<0, 0, 1, 0>>
            /\ \A x \in {0, 1}, y \in {0, 1} :
                transform_point(tables.bones[i + 1], x, y)
                    = world_point(skeleton.bones[i + 1], x, y)
        /\ \A i \in Len(skeleton.bones)..(BONES - 1) :
            tables.bones[i + 1] = IDENTITY

\* A frame was drawn for a moved pose with an inactive bone, after the draw
\* order changed.
C9_Witness ==
    /\ uniforms # <<>>
    /\ \E i \in 1..Len(skeleton.bones) :
        /\ ~skeleton.bones[i].active
        /\ skeleton.bones[i].pose = BonePose(i - 1, MaxPose)
        /\ tables.bones[i] # IDENTITY
    /\ skeleton.draw_order[1] # 0

\* C10: after the slot pass slot_bones[s] is the bone index of every slot
\* s, and for every slot bound to a baked attachment of attachment index a,
\* attachment_slots[a] is a slot currently bound to that attachment: the
\* tables follow the live pose.
C10_SlotTablesFollowPose ==
    uniforms # <<>> =>
        \A s \in 0..(Len(skeleton.slots) - 1) :
            LET name == skeleton.slots[s + 1].attachment IN
            /\ tables.slot_bones[s + 1] = skeleton.slots[s + 1].bone
            /\ name # None /\ name \in DOMAIN buffers.attachments =>
                LET a == buffers.attachments[name].attachment_index
                    named == tables.attachment_slots[a + 1]
                IN  /\ named \in 0..(Len(skeleton.slots) - 1)
                    /\ skeleton.slots[named + 1].attachment = name

\* A frame was drawn after an attachment moved to a slot other than the
\* one it was baked from.
C10_Witness ==
    /\ uniforms # <<>>
    /\ \E k \in 1..Len(buffers.attachment_info), s \in 0..(Len(skeleton.slots) - 1) :
        LET name == skeleton.slots[s + 1].attachment IN
        /\ name # None
        /\ name \in DOMAIN buffers.attachments
        /\ buffers.attachments[name].attachment_index = k - 1
        /\ buffers.attachment_info[k].slot_index # s
        /\ skeleton.slots[buffers.attachment_info[k].slot_index + 1].attachment # name
        /\ tables.attachment_slots[k] = s

\* ----------------------------------------------------------- frame claims
\* The deform floats of slot s in the live pose.
deform_of(s) == skeleton.slots[s + 1].deform

\* C11: after the deform pass a slot without deform floats has offset -1,
\* and a slot with N > 0 deform floats has an offset o >= 0 such that the
\* cells [o, o + N) of the deform array hold its floats; the ranges of two
\* deformed slots are disjoint.
C11_DeformRangesHoldSlotFloats ==
    uniforms # <<>> =>
        /\ \A s \in 0..(Len(skeleton.slots) - 1) :
            LET o == tables.deform_offsets[s + 1] IN
            IF Len(deform_of(s)) = 0
            THEN o = -1
            ELSE /\ o >= 0
                 /\ \A i \in 1..Len(deform_of(s)) :
                        deform_at(tables.deform, o + i - 1) = deform_of(s)[i]
        /\ \A s, t \in 0..(Len(skeleton.slots) - 1) :
            s # t /\ Len(deform_of(s)) > 0 /\ Len(deform_of(t)) > 0 =>
                \/ tables.deform_offsets[s + 1] + Len(deform_of(s))
                        <= tables.deform_offsets[t + 1]
                \/ tables.deform_offsets[t + 1] + Len(deform_of(t))
                        <= tables.deform_offsets[s + 1]

\* Two deformed meshes were extracted in one frame, the second behind the
\* first.
C11_Witness ==
    /\ uniforms # <<>>
    /\ Len(deform_of(0)) > 0
    /\ Len(deform_of(1)) > 0
    /\ tables.deform_offsets[2] = Len(deform_of(0))

\* C13: when the live skeleton has more bones than the bone table holds,
\* the frame of main.rs still completes: the draw that extracted the tables
\* leaves the process running, with the tables built.
C13_CapacityExceededCompletesFrame ==
    (example = Main /\ Len(skeleton.bones) > BONES /\ gl_calls # <<>>) =>
        /\ pc = "running"
        /\ uniforms # <<>>

\* ------------------------------------------------------- draw-loop claims
\* The draw calls of the pass, by their place in gl_calls.
draws == {k \in 1..Len(gl_calls) : gl_calls[k].call = "draw"}

\* The slot a draw call was issued for, and its draw-order position.
slot_of(k) == skeleton.slots[gl_calls[k].slot + 1]

position_of(k) ==
    CHOOSE p \in 0..(Len(skeleton.draw_order) - 1) :
        skeleton.draw_order[p + 1] = gl_calls[k].slot

\* C14: get_blend_states returns, for each of the 8 combinations of blend
\* mode and premultiplied alpha, an alpha and a colour blend state whose
\* equation is Add; Additive with straight alpha gives alpha (One, One) and
\* colour (SourceAlpha, One), Additive with premultiplied alpha (One, One)
\* for both.  The blend state main.rs sets for a slot is that value.
C14_BlendStatesOfEveryCombination ==
    /\ \A m \in 1..Len(BlendModes), pma \in BOOLEAN :
        LET states == get_blend_states(BlendModes[m], pma) IN
        /\ DOMAIN states = {"alpha_blend", "color_blend"}
        /\ states.alpha_blend.equation = "Add"
        /\ states.color_blend.equation = "Add"
    /\ get_blend_states("Additive", FALSE) =
            [alpha_blend |-> [equation |-> "Add", sfactor |-> "One", dfactor |-> "One"],
             color_blend |-> [equation |-> "Add", sfactor |-> "SourceAlpha", dfactor |-> "One"]]
    /\ get_blend_states("Additive", TRUE) =
            [alpha_blend |-> [equation |-> "Add", sfactor |-> "One", dfactor |-> "One"],
             color_blend |-> [equation |-> "Add", sfactor |-> "One", dfactor |-> "One"]]
    /\ \A k \in 1..Len(gl_calls) :
        gl_calls[k].call = "set_blend" =>
            /\ gl_calls[k].blend.alpha_blend.equation = "Add"
            /\ gl_calls[k].blend.color_blend.equation = "Add"

\* main.rs drew an Additive slot of a premultiplied skeleton.
C14_Witness ==
    /\ example = Main
    /\ premultiplied_alpha(skeleton)
    /\ \E k \in draws :
        /\ slot_of(k).blend_mode = "Additive"
        /\ gl_calls[k].blend.color_blend.sfactor = "One"

\* C15: the draw calls of one render of the scene are issued in strictly
\* increasing draw-order position of their slots, whatever the slot indices.
C15_DrawCallsInDrawOrder ==
    \A i, j \in draws :
        i < j /\ gl_calls[i].cell = gl_calls[j].cell => position_of(i) < position_of(j)

\* Two slots were drawn in one scene, the slot of the higher index first.
C15_Witness ==
    \E i, j \in draws :
        /\ i < j
        /\ gl_calls[i].cell = gl_calls[j].cell
        /\ gl_calls[i].slot > gl_calls[j].slot

\* C16: no draw call is issued for a slot whose bone is inactive in the
\* live pose, for a slot without attachment, or for a slot bound to a
\* clipping attachment.
C16_SkippedSlotsDrawNothing ==
    \A k \in draws :
        /\ skeleton.bones[slot_of(k).bone + 1].active
        /\ slot_of(k).attachment # None
        /\ slot_of(k).attachment # "clip"

\* C17: the blend state in effect at every draw call is get_blend_states of
\* the blend mode of the slot drawn and the premultiplied-alpha flag of the
\* skeleton.
C17_DrawnUnderBlendOfSlot ==
    \A k \in draws :
        gl_calls[k].blend =
            get_blend_states(slot_of(k).blend_mode, premultiplied_alpha(skeleton))

\* Whether a metadata entry is a bake of the attachment: it has the index
\* count of the attachment and its vertices carry the attachment's uvs.
bakes(entry, attachment) ==
    LET data == attachment_data(attachment) IN
    /\ entry.index_count = IF as_region(attachment) THEN 6 ELSE Len(data.triangles)
    /\ entry.vertex_count = Len(data.uvs) \div 2
    /\ \A v \in 1..entry.vertex_count :
        buffers.vertices[entry.vertex_start + v].uv = <<data.uvs[2 * v - 1], data.uvs[2 * v]>>

\* C19: every draw call covers the baked index range of the attachment
\* bound to its slot in the live pose, and a slot has at most one draw call
\* in a render of the scene, also after the animation changed the draw order
\* or rebound attachments.
C19_DrawCoversBakedRange ==
    /\ \A k \in draws :
        \E e \in 1..Len(info) :
            /\ bakes(info[e], slot_of(k).attachment)
            /\ gl_calls[k].base_element = info[e].index_start
            /\ gl_calls[k].num_elements = info[e].index_count
    /\ \A i, j \in draws :
        gl_calls[i].cell = gl_calls[j].cell /\ gl_calls[i].slot = gl_calls[j].slot => i = j

\* -------------------------------------------------------- texture claims
\* The SpineTexture of the atlas page of the attachment bound to a slot.
spine_texture_of(slot) == textures[page_of(skeleton.atlas, slot.attachment) + 1]

\* C18: a draw call is issued only with the Loaded texture of the slot's
\* own attachment bound; a slot whose texture is still NeedsToBeLoaded has
\* no draw call in the pass.
C18_DrawnWithOwnLoadedTexture ==
    \A k \in draws :
        /\ spine_texture_of(slot_of(k)).state = "Loaded"
        /\ gl_calls[k].texture = spine_texture_of(slot_of(k)).texture

\* gpu_skinning.rs, which keeps its bindings from slot to slot, drew two
\* slots whose attachments are on different atlas pages.
C18_Witness ==
    /\ example = Single
    /\ \E i, j \in draws :
        /\ i < j
        /\ gl_calls[i].texture # gl_calls[j].texture
        /\ bindings = gl_calls[j].texture

\* The handles of the Loaded textures of an atlas, in page order.
loaded_handles(atlas_textures) ==
    LET loaded == SelectSeq(atlas_textures, LAMBDA t : t.state = "Loaded")
    IN  <<>> \o [k \in 1..Len(loaded) |-> loaded[k].texture]

\* The handles a pass deleted, in the order of its delete calls.
deleted_handles(calls) ==
    LET deletes == SelectSeq(calls, LAMBDA c : c.call = "delete")
    IN  <<>> \o [k \in 1..Len(deletes) |-> deletes[k].texture]

\* C20: disposing the atlas of a replaced spine deletes no texture: it
\* appends the handles of its Loaded textures to the delete queue and
\* nothing for a NeedsToBeLoaded one.  The next draw pass deletes every
\* queued handle once, before any other call of the pass, and leaves the
\* queue empty; no other step deletes a texture.
C20_DeletionDeferredToDrain ==
    [][/\ (current_spine_demo' # current_spine_demo /\ pc' = "running") =>
            /\ gl_textures' = gl_textures
            /\ texture_delete_queue' = texture_delete_queue \o loaded_handles(textures)
       /\ (gl_calls = <<>> /\ gl_calls' # <<>>) =>
            /\ texture_delete_queue' = <<>>
            /\ deleted_handles(gl_calls') = texture_delete_queue
            /\ \A i, j \in 1..Len(texture_delete_queue) :
                    texture_delete_queue[i] = texture_delete_queue[j] => i = j
            /\ \A i \in 1..Len(texture_delete_queue) :
                    /\ gl_calls'[i].call = "delete"
                    /\ texture_delete_queue[i] \in gl_textures
                    /\ texture_delete_queue[i] \notin gl_textures'
       /\ gl_calls' = <<>> => gl_textures' = gl_textures
      ]_vars

\* A draw pass drained two handles that a reload had queued.
C20_Witness ==
    /\ Len(deleted_handles(gl_calls)) = 2
    /\ texture_delete_queue = <<>>
    /\ \E k \in draws : gl_calls[k].texture \in gl_textures

\* C21: no draw call and no binding uses the handle of a deleted texture.
\* Every draw call of a pass names a texture that exists and that no delete
\* call of the pass names, the delete calls coming first; the Loaded
\* textures of the atlas of the skeleton being drawn exist and are neither
\* queued for deletion nor deleted in the pass; a queued handle is the
\* handle of a texture that still exists, of a page that was disposed.
C21_NoUseOfDeletedTexture ==
    /\ \A k \in 1..Len(gl_calls) :
        gl_calls[k].call = "draw" =>
            /\ gl_calls[k].texture \in gl_textures
            /\ \A d \in 1..Len(gl_calls) :
                gl_calls[d].call = "delete" =>
                    /\ d < k
                    /\ gl_calls[d].texture # gl_calls[k].texture
    /\ \A page \in 1..Len(textures) :
        textures[page].state = "Loaded" =>
            /\ textures[page].texture \in gl_textures
            /\ \A q \in 1..Len(texture_delete_queue) :
                    texture_delete_queue[q] # textures[page].texture
            /\ \A d \in 1..Len(gl_calls) :
                    gl_calls[d].call = "delete" =>
                        gl_calls[d].texture # textures[page].texture
    /\ \A q \in 1..Len(texture_delete_queue) : texture_delete_queue[q] \in gl_textures
    /\ bindings = 0 \/ bindings \in gl_textures

\* The pass after a reload deleted the textures of the replaced atlas and
\* drew with a texture of the new one.
C21_Witness ==
    /\ current_spine_demo = 1
    /\ \E d, k \in 1..Len(gl_calls) :
        /\ gl_calls[d].call = "delete"
        /\ gl_calls[k].call = "draw"
        /\ gl_calls[d].texture \notin gl_textures
        /\ gl_calls[k].texture \in gl_textures

\* The pages of the live atlas that a bound region or mesh attachment is on.
referenced_pages ==
    {page_of(skeleton.atlas, skeleton.slots[k].attachment) + 1 :
        k \in {k \in 1..Len(skeleton.slots) :
                /\ skeleton.slots[k].attachment # None
                /\ \/ as_region(skeleton.slots[k].attachment)
                   \/ as_mesh(skeleton.slots[k].attachment)}}

\* C22: the texture of every page of a new atlas is NeedsToBeLoaded.  While
\* the atlas is the live one a Loaded texture stays the Loaded texture it
\* is, and a NeedsToBeLoaded one becomes Loaded only in a draw pass and only
\* if a bound region or mesh attachment is on its page; the texture of a
\* page no bound attachment is on stays NeedsToBeLoaded.
C22_LoadedOnceWhenDrawn ==
    /\ \A page \in 1..Len(textures) : textures[page].state = "NeedsToBeLoaded"
    /\ [][/\ (current_spine_demo' # current_spine_demo /\ pc' = "running") =>
                \A page \in 1..Len(textures') : textures'[page].state = "NeedsToBeLoaded"
          /\ current_spine_demo' = current_spine_demo =>
                /\ Len(textures') = Len(textures)
                /\ \A page \in 1..Len(textures) :
                    /\ textures[page].state = "Loaded" => textures'[page] = textures[page]
                    /\ textures'[page] # textures[page] =>
                        /\ textures'[page].state = "Loaded"
                        /\ skeleton' = skeleton
                        /\ gl_calls' # <<>>
                        /\ page \in referenced_pages
                    /\ page \notin referenced_pages => textures'[page] = textures[page]
         ]_vars

\* A draw pass loaded the texture of the one page the bound attachments are
\* on; the texture of the other page waits.
C22_Witness ==
    /\ gl_calls # <<>>
    /\ \E loaded, waiting \in 1..Len(textures) :
        /\ textures[loaded].state = "Loaded"
        /\ textures[waiting].state = "NeedsToBeLoaded"
        /\ referenced_pages = {loaded}

\* ---------------------------------------------------- bake claims, part two
\* C27: the bake emits geometry and a metadata entry for every region and
\* mesh attachment of the skeleton data, whether or not the bone of its slot
\* is active at load time.
C27_BakeEmitsEveryAttachment ==
    (pc = "running" /\ example = Main) =>
        \A p \in 0..(slots_count(skeleton) - 1) :
            (/\ attachment_at(p) # None
             /\ as_region(attachment_at(p)) \/ as_mesh(attachment_at(p))) =>
                \E k \in entries_of(p) : info[k].vertex_count > 0

\* C28: a weighted mesh is baked as one vertex per source vertex of its
\* count-prefixed influence stream, and stored influence j of a vertex has
\* the bone index, the position and the weight of the j-th tuple of that
\* vertex.
C28_InfluenceStreamCountPrefixed ==
    (pc = "running" /\ example = Main) =>
        \A p \in baked_positions :
            LET mesh == attachment_data(attachment_at(p)) IN
            as_mesh(attachment_at(p)) /\ has_bones(mesh) =>
                LET declared == declared_influences(mesh, 0, 0) IN
                \E k \in entries_of(p) :
                    /\ info[k].vertex_count = Len(declared)
                    /\ \A v \in 1..Len(declared) :
                        LET stored == buffers.vertices[info[k].vertex_start + v] IN
                        \A j \in 1..Min(Len(declared[v]), 4) :
                            /\ stored.bone_indices[j] = declared[v][j].bone
                            /\ stored.positions[j] = declared[v][j].position
                            /\ stored.bone_weights[j] = declared[v][j].weight

\* C29: every vertex baked from a region or an unweighted mesh stores, as
\* its bone index, the index of the bone of the attachment's slot.
C29_VertexSkinnedBySlotBone ==
    pc = "running" =>
        \A k \in 1..Len(info) :
            LET slot == baked_slot(info[k])
                attachment == slot.attachment
            IN  (\/ as_region(attachment)
                 \/ as_mesh(attachment) /\ ~has_bones(attachment_data(attachment))) =>
                    \A v \in 1..info[k].vertex_count :
                        buffers.vertices[info[k].vertex_start + v].bone_indices[1] = slot.bone

\* ------------------------------------------------------------- grid claims
\* What the pass issued for one grid cell: the views of its apply_uniforms
\* calls and its draw calls, without the cell number.
cell_calls(calls, cell) ==
    LET issued == SelectSeq(calls, LAMBDA c : c.call = "draw" /\ c.cell = cell)
    IN  <<>> \o [k \in 1..Len(issued) |->
                    <<issued[k].slot, issued[k].base_element, issued[k].num_elements,
                      issued[k].texture, issued[k].blend>>]

applied_views(calls) ==
    {calls[k].view : k \in {i \in 1..Len(calls) : calls[i].call = "apply_uniforms"}}

\* C24: only a reload changes the baked vertex buffer, index buffer and
\* attachment metadata: an update, a draw, a resize and any other key leave
\* them as they are.  In a frame of main.rs every grid cell is rendered
\* from the same baked ranges under the same frame uniforms: each cell has
\* the draw calls of the first cell, the ranges are those of the baked
\* metadata, and every apply_uniforms is given the uniforms of the frame.
C24_BakedBuffersImmutable ==
    [][/\ buffers' # buffers =>
            /\ current_spine_demo' # current_spine_demo
            /\ pc' = "running"
       /\ (example = Main /\ gl_calls' # gl_calls /\ gl_calls' # <<>> /\ pc' = "running") =>
            /\ uniforms' # <<>>
            /\ applied_views(gl_calls') = {uniforms'[1].view}
            /\ Cardinality({k \in 1..Len(gl_calls') : gl_calls'[k].call = "apply_uniforms"})
                    = grid_size * grid_size
            /\ \A cell \in 0..(grid_size * grid_size - 1) :
                    cell_calls(gl_calls', cell) = cell_calls(gl_calls', 0)
            /\ \A k \in 1..Len(gl_calls') :
                    gl_calls'[k].call = "draw" =>
                        \E name \in DOMAIN buffers.attachments :
                            /\ buffers.attachments[name].index_start = gl_calls'[k].base_element
                            /\ buffers.attachments[name].index_count = gl_calls'[k].num_elements
      ]_vars

\* A frame of four cells with draw calls was rendered in a resized window
\* after a reload.
C24_Witness ==
    /\ example = Main
    /\ current_spine_demo = 1
    /\ screen_size # <<800, 600>>
    /\ grid_size = 2
    /\ \E k \in draws : gl_calls[k].cell = 3
    /\ Len(cell_calls(gl_calls, 3)) = 2

\* ------------------------------------------------------------ atlas claims
\* The draw pass that would run in the present state, up to the loading of
\* its textures.
ensured_now ==
    ensure_textures_loaded(example, skeleton,
        [textures |-> textures, live |-> gl_textures, panic |-> None, gl_calls |-> <<>>], 0)

\* C30: the format the create-texture callback stores in a texture that
\* waits to be loaded is RGB8 or RGBA8 whatever the format of the atlas page,
\* a format it does not name being stored as RGBA8; so the loading of the
\* textures of a frame never reaches the unreachable!() arm of its format
\* match.
C30_StoredFormatHasAnArm ==
    /\ \A page \in 1..Len(textures) :
        textures[page].state = "NeedsToBeLoaded" =>
            /\ textures[page].format \in {"RGB8", "RGBA8"}
            /\ skeleton.atlas.pages[page].format \notin {"RGB888", "RGBA8888"} =>
                    textures[page].format = "RGBA8"
    /\ pc = "running" => ensured_now.panic # "unreachable"

C30_Witness ==
    /\ pc = "running"
    /\ \E page \in 1..Len(textures) :
        /\ skeleton.atlas.pages[page].format = "Alpha"
        /\ textures[page].state = "Loaded"

\* The lines of stdout that warn of an unsupported value.
warned(what, value) ==
    \E k \in 1..Len(stdout) : stdout[k] = Unsupported(what, value)

\* The filter and the wrap the spec documents for a value of the atlas.
documented_filter(filter) == IF filter \in {"Linear", "Nearest"} THEN filter ELSE "Linear"

documented_wrap(wrap) ==
    CASE wrap = "ClampToEdge" -> "Clamp"
      [] wrap = "MirroredRepeat" -> "Mirror"
      [] wrap = "Repeat" -> "Repeat"
      [] OTHER -> "Clamp"

failing_pages ==
    {page \in 1..Len(skeleton.atlas.pages) :
        ~(/\ image_opens(skeleton.atlas.pages[page].name)
          /\ image_decodes(skeleton.atlas.pages[page].name))}

\* C26: a frame drawn while the image of a page does not open or does not
\* decode leaves the process running and the texture of that page not
\* Loaded, and it loads the texture of every other page that a bound region
\* or mesh attachment is on and issues a draw call with it.
C26_ImageFailureIsolated ==
    [][(/\ failing_pages # {}
        /\ pc = "running"
        /\ current_spine_demo' = current_spine_demo) =>
            /\ pc' = "running"
            /\ \A page \in failing_pages : textures'[page].state # "Loaded"
            /\ \A k \in 1..Len(skeleton.slots) :
                LET attachment == skeleton.slots[k].attachment
                    page == page_of(skeleton.atlas, attachment) + 1
                IN  (/\ attachment # None
                     /\ as_region(attachment) \/ as_mesh(attachment)
                     /\ page \notin failing_pages) =>
                        /\ textures'[page].state = "Loaded"
                        /\ \E c \in 1..Len(gl_calls') :
                            /\ gl_calls'[c].call = "draw"
                            /\ gl_calls'[c].texture = textures'[page].texture
      ]_vars

\* ------------------------------------------------------------ queue claims
\* The delete queue after a step holds the queue before it and what was
\* pushed.
queue_kept ==
    /\ Len(texture_delete_queue') >= Len(texture_delete_queue)
    /\ SubSeq(texture_delete_queue', 1, Len(texture_delete_queue)) = texture_delete_queue

====
